---- MODULE Spec2Model ----
(***************************************************************************)
(* A model of the server-list collection, caching and reachability engine. *)
(*                                                                         *)
(* The specifications share the module, one per component:                 *)
(*   SpecStore   the ESXi collection path of data_collector.py, the SQLite *)
(*               tables it writes under _db_lock, and the VM read handlers *)
(*               of webapi/vm.py and webapi/config.py;                     *)
(*   SpecFetch   the background benchmark fetch queue of cpu_benchmark.py; *)
(*   SpecCache   the cache refresher of cache_manager.py and its DB-state  *)
(*               watcher;                                                  *)
(*   SpecWorker  the life cycle of the collector thread (start_collector,  *)
(*               stop_collector, _update_worker);                          *)
(*   SpecTick    one collect_all_data tick over every source family;       *)
(*   SpecLookup  get_benchmark of cpu_benchmark.py over the benchmark      *)
(*               table;                                                    *)
(*   SpecBench   the benchmark writers (fetch jobs, clear_benchmark), the  *)
(*               bulk reader get_all_benchmarks with its in-memory cache,  *)
(*               and the locks of the three store modules;                 *)
(*   SpecStorage the ZFS pool and mount families of data_collector.py,     *)
(*               row by row;                                               *)
(*   SpecRefresh collect_host_data next to the periodic attempt for the    *)
(*               same host;                                                *)
(*   SpecRoute   GET /cpu/benchmark of webapi/cpu.py next to the fetch     *)
(*               jobs;                                                     *)
(*   SpecScore   calculate_match_score of cpu_benchmark.py;                *)
(*   SpecBatch   get_benchmarks_batch of cpu_benchmark.py next to the      *)
(*               writers of the table;                                     *)
(*   SpecUps     fetch_all_ups_from_host of ups_collector.py and its       *)
(*               socket.                                                   *)
(* SpecFetchFair is SpecFetch with its threads scheduled.                  *)
(* Each specification leaves the variables of the other components alone.  *)
(***************************************************************************)
EXTENDS Integers, Sequences, FiniteSets, TLC

VARIABLES
    \* ---- server_data.db and the threads that use it (SpecStore)
    vm_info,            \* table vm_info: the committed rows
    host_info,          \* table host_info: host -> row or NoRow
    collection_status,  \* table collection_status: host -> status or NoRow
    db_lock,            \* data_collector._db_lock: "free" or its holder
    txn,                \* the uncommitted view of the connection holding the lock
    col,                \* the collecting thread: where it is in one attempt
    rd,                 \* a web request thread: where it is in one VM read
    attempts,           \* collection attempts begun so far
    last_good,          \* history: capacity fields last saved by save_host_info
    \* ---- cpu_benchmark._fetch_queue and its users (SpecFetch)
    pending,            \* BackgroundFetchQueue._pending
    tasks,              \* the _fetch_task threads alive
    caller,             \* the threads calling queue_background_fetch
    calls,              \* calls of queue_background_fetch begun so far
    \* ---- cache.db and the cache refresher (SpecCache)
    config_file,        \* what load_config_from_file finds on disk
    cache_entry,        \* table cache, key "config": the stored JSON value
    pass,               \* the threads running update_all_caches
    passes,             \* refresh passes begun so far
    notify_count,       \* notify_event(CONTENT) calls of update_all_caches
    edits,              \* edits of config.yaml so far
    cache_main,         \* the thread calling start_cache_worker
    cache_thread,       \* cache_manager._update_thread
    watch_thread,       \* cache_manager._watch_thread: a watcher id, 0 is None
    watchers,           \* the DB-state watcher threads that are running
    batch,              \* the last call of get_benchmarks_batch and its answer
    \* ---- the socket of fetch_all_ups_from_host (SpecUps)
    ups,                \* the thread in fetch_all_ups_from_host
    wire,               \* the bytes the server has sent and recv has not returned
    upsd,               \* the NUT server's end of the connection
    \* ---- the collector thread's life cycle (SpecWorker)
    update_thread,      \* data_collector._update_thread: 0 (None) or a thread id
    should_stop,        \* data_collector._should_stop
    thread,             \* the worker threads created so far: id -> position
    ctl,                \* the thread calling start_collector / stop_collector
    pass_log,           \* history: how each worker's last pass ended
    \* ---- one collect_all_data tick over every source family (SpecTick)
    tick,               \* the worker inside collect_all_data
    power_info,         \* table power_info: the row of the iLO machine
    prom_host_info,     \* table host_info: the row of the machine without esxi
    zfs_pool_info,      \* table zfs_pool_info: the rows of that machine
    mount_info,         \* table mount_info: the rows of that machine
    data_notify,        \* notify_event(DATA) calls so far
    \* ---- cpu_spec.db and its readers and writers (SpecLookup, SpecBench)
    cpu_benchmark,      \* table cpu_benchmark: the committed rows in rowid order
    benchmark_cache,    \* cpu_benchmark._benchmark_cache, key "all_benchmarks"
    job,                \* the threads writing the table: where each one is
    bulk,               \* the threads calling get_all_benchmarks
    lookup,             \* the last get_benchmark call and what it returned
    cache_db_lock,      \* cache_manager._db_lock: "free" or its holder
    writer,             \* the collector and the refresher inside a store write
    \* ---- tables zfs_pool_info and mount_info, row by row (SpecStorage)
    storage_rows,       \* family -> the committed rows of its table
    cycle,              \* the worker inside one family's collect_prometheus_*_data
    \* ---- collect_host_data next to the periodic pass (SpecRefresh)
    attempt,            \* the thread of a manual refresh and the worker: position
    refreshes,          \* collection attempts begun so far, the last one's id
    written_by,         \* history: host -> the attempts that wrote its two rows
    results,            \* history: attempt id -> how it ended
    \* ---- GET /cpu/benchmark next to the fetch jobs (SpecRoute)
    request,            \* the request thread inside get_cpu_benchmark
    \* ---- calculate_match_score (SpecScore)
    score_call          \* the last call of calculate_match_score and its value

varsStore  == <<vm_info, host_info, collection_status, db_lock, txn, col, rd,
                attempts, last_good>>
varsFetch  == <<pending, tasks, caller, calls>>
varsCache  == <<config_file, cache_entry, pass, passes, notify_count, edits,
                cache_main, cache_thread>>
varsWatch  == <<watch_thread, watchers>>
varsWorker == <<update_thread, should_stop, thread, ctl, pass_log>>
varsTick   == <<tick, power_info, prom_host_info, zfs_pool_info, mount_info,
                data_notify>>
varsBench  == <<cpu_benchmark, benchmark_cache, job, bulk, lookup,
                cache_db_lock, writer>>
varsStorage == <<storage_rows, cycle>>
varsRefresh == <<attempt, refreshes, written_by, results>>
varsRoute  == <<request>>
varsScore  == <<score_call>>
varsBatch  == <<batch>>
varsUps    == <<ups, wire, upsd>>
varsExtra  == <<varsWatch, varsBatch, varsUps>>
varsLater  == <<varsStorage, varsRefresh, varsRoute, varsScore, varsExtra>>
vars       == <<varsStore, varsFetch, varsCache, varsWorker, varsTick,
                varsBench, varsLater>>

(***************************************************************************)
(* Bounds of the model.                                                    *)
(***************************************************************************)
MaxCollections == 3     \* collection attempts in one behaviour
MaxCalls       == 3     \* calls of queue_background_fetch in one behaviour
MaxPasses      == 3     \* refresh passes in one behaviour
MaxEdits       == 1     \* edits of config.yaml in one behaviour
MaxThreads     == 2     \* collector threads created in one behaviour
MaxTicks       == 2     \* collect_all_data ticks in one behaviour
MaxControl     == 5     \* start_collector / stop_collector calls in one behaviour
MaxRows        == 2     \* rows of table cpu_benchmark
MaxCycles      == 2     \* collect_prometheus_*_data calls in one behaviour
MaxRefreshes   == 2     \* attempts of SpecRefresh in one behaviour
MaxRequests    == 2     \* GET /cpu/benchmark requests in one behaviour

(***************************************************************************)
(* Values.                                                                 *)
(***************************************************************************)
NULL  == -1             \* Python None in a numeric column
NoRow == "no_row"       \* fetchone() found nothing

Hosts   == {"esxi-a", "esxi-b"}
VMNames == {"vm1", "vm2"}

(***************************************************************************)
(* SpecStore: server_data.db, the ESXi collection attempt and the VM read  *)
(* handlers.                                                               *)
(***************************************************************************)

\* dataclass VMInfo, as a row of table vm_info.
VMRow(h, n, cpu, ram, ps) ==
    [esxi_host |-> h, vm_name |-> n, cpu_count |-> cpu, ram_mb |-> ram,
     power_state |-> ps]

\* What fetch_vm_data can return for host h: a list of VMInfo, all with
\* esxi_host = h.  The lists differ in which VMs exist and in their power
\* state; capacity differs by VM.
FetchResults(h) ==
    { <<>>,
      <<VMRow(h, "vm1", 2, 4096, "poweredOn")>>,
      <<VMRow(h, "vm2", 4, 8192, "poweredOff")>>,
      <<VMRow(h, "vm1", 2, 4096, "poweredOff"),
        VMRow(h, "vm2", 4, 8192, "poweredOn")>> }

\* dataclass HostInfo, as a row of table host_info.
HostRow(st, boot, threads, cores, mem) ==
    [status |-> st, boot_time |-> boot, cpu_threads |-> threads,
     cpu_cores |-> cores, memory_total_bytes |-> mem]

\* No row of host_info (fetchone() found nothing), and None from
\* fetch_host_info.
NoHostRow == [status |-> "no_row"]

\* What fetch_host_info can return: a HostInfo with status "running", or None.
HostInfos == { HostRow("running", 1, 16, 8, 64), NoHostRow }

\* The row save_host_info_failed writes: status "unknown", all else None.
FailedHostRow == HostRow("unknown", NULL, NULL, NULL, NULL)

\* The capacity fields of a host row.
Capacity(row) ==
    [cpu_threads |-> row.cpu_threads, cpu_cores |-> row.cpu_cores,
     memory_total_bytes |-> row.memory_total_bytes]

Collectors == {"worker"}
NoTxn == [open |-> FALSE, rows |-> {}]
NoCapacity == [known |-> FALSE]

ColIdle == [pc |-> "idle", host |-> "", vms |-> <<>>, todo |-> 0,
            info |-> NoHostRow, before |-> {}]
RdIdle  == [pc |-> "idle", kind |-> "", host |-> "", name |-> "", rows |-> {},
            status |-> [h \in Hosts |-> "unread"], resp |-> {}]

InitStore ==
    /\ vm_info = {}
    /\ host_info = [h \in Hosts |-> NoHostRow]
    /\ collection_status = [h \in Hosts |-> NoRow]
    /\ db_lock = "free"
    /\ txn = NoTxn
    /\ col = [p \in Collectors |-> ColIdle]
    /\ rd = RdIdle
    /\ attempts = 0
    /\ last_good = [h \in Hosts |-> NoCapacity]

StoreFrame ==
    UNCHANGED <<varsFetch, varsCache, varsWorker, varsTick, varsBench, varsLater>>

\* _get_locked_connection: the lock is taken for the length of one with-block.
LockFree == db_lock = "free"

\* The rows of table vm_info for one host, in a table t.
RowsOf(t, h) == {r \in t : r.esxi_host = h}

\* The elements of a list.
Range(seq) == {seq[i] : i \in 1..Len(seq)}

\* ---- one collection attempt for host h (the body of collect_all_data's
\* ---- loop, and collect_host_data), by thread p

\* connect_to_esxi: returns a connection, or None on any failure.
ConnectToEsxi(p, h, ok) ==
    /\ col[p].pc = "idle"
    /\ attempts < MaxCollections
    /\ attempts' = attempts + 1
    /\ col' = [col EXCEPT ![p] = [ColIdle EXCEPT !.host = h,
                    !.pc = IF ok THEN "fetch_vm" ELSE "cf_status"]]
    /\ UNCHANGED <<vm_info, host_info, collection_status, db_lock, txn, rd,
                   last_good>>
    /\ StoreFrame

\* update_collection_status(host, status): one locked INSERT OR REPLACE.
UpdateCollectionStatus(p, at, status, next) ==
    /\ col[p].pc = at
    /\ LockFree
    /\ collection_status' = [collection_status EXCEPT ![col[p].host] = status]
    /\ col' = [col EXCEPT ![p] = IF next = "idle" THEN ColIdle
                                  ELSE [@ EXCEPT !.pc = next]]
    /\ UNCHANGED <<vm_info, host_info, db_lock, txn, rd, attempts, last_good>>
    /\ StoreFrame

\* save_host_info_failed(host): one locked INSERT OR REPLACE of the whole row.
SaveHostInfoFailed(p, at, next) ==
    /\ col[p].pc = at
    /\ LockFree
    /\ host_info' = [host_info EXCEPT ![col[p].host] = FailedHostRow]
    /\ col' = [col EXCEPT ![p] = IF next = "idle" THEN ColIdle
                                  ELSE [@ EXCEPT !.pc = next]]
    /\ UNCHANGED <<vm_info, collection_status, db_lock, txn, rd, attempts,
                   last_good>>
    /\ StoreFrame

\* collect_all_data / collect_host_data, "if not si": the status first, then
\* the degraded host row.
ConnFailedStatus(p) == UpdateCollectionStatus(p, "cf_status", "connection_failed", "cf_host")
ConnFailedHost(p)   == SaveHostInfoFailed(p, "cf_host", "idle")

\* fetch_vm_data: returns the VM list, or raises (RetrieveContent and the
\* container view are outside its try).
FetchVmData(p, res, raises) ==
    /\ col[p].pc = "fetch_vm"
    /\ col' = [col EXCEPT ![p] = IF raises THEN [@ EXCEPT !.pc = "err_status"]
                                  ELSE [@ EXCEPT !.pc = "save_vm", !.vms = res]]
    /\ UNCHANGED <<vm_info, host_info, collection_status, db_lock, txn, rd,
                   attempts, last_good>>
    /\ StoreFrame

\* save_vm_data, "with _get_locked_connection() as conn": takes the lock and
\* opens a connection, whose view starts as the committed table.
SaveVmBegin(p) ==
    /\ col[p].pc = "save_vm"
    /\ LockFree
    /\ db_lock' = p
    /\ txn' = [open |-> TRUE, rows |-> vm_info]
    /\ col' = [col EXCEPT ![p] = [@ EXCEPT !.pc = "vm_delete",
                                             !.before = RowsOf(vm_info, col[p].host)]]
    /\ UNCHANGED <<vm_info, host_info, collection_status, rd, attempts,
                   last_good>>
    /\ StoreFrame

\* save_vm_data without its DELETE: the rows of the host are kept.
SaveVmDeleteNothing(p) ==
    /\ col[p].pc = "vm_delete"
    /\ db_lock = p
    /\ col' = [col EXCEPT ![p] = [@ EXCEPT !.pc = "vm_insert", !.todo = 1]]
    /\ UNCHANGED <<vm_info, host_info, collection_status, db_lock, txn, rd,
                   attempts, last_good>>
    /\ StoreFrame

\* save_vm_data whose DELETE is committed on its own and outside the lock that
\* covers the inserts.
SaveVmDeleteCommitted(p) ==
    /\ col[p].pc = "vm_delete"
    /\ db_lock = p
    /\ vm_info' = vm_info \ RowsOf(vm_info, col[p].host)
    /\ txn' = [txn EXCEPT !.rows = @ \ RowsOf(@, col[p].host)]
    /\ db_lock' = "free"
    /\ col' = [col EXCEPT ![p] = [@ EXCEPT !.pc = "vm_insert", !.todo = 1]]
    /\ UNCHANGED <<host_info, collection_status, rd, attempts, last_good>>
    /\ StoreFrame

\* save_vm_data: DELETE FROM vm_info WHERE esxi_host = ?
SaveVmDelete(p) ==
    /\ col[p].pc = "vm_delete"
    /\ db_lock = p
    /\ txn' = [txn EXCEPT !.rows = @ \ RowsOf(@, col[p].host)]
    /\ col' = [col EXCEPT ![p] = [@ EXCEPT !.pc = "vm_insert", !.todo = 1]]
    /\ UNCHANGED <<vm_info, host_info, collection_status, db_lock, rd,
                   attempts, last_good>>
    /\ StoreFrame

\* save_vm_data: one INSERT INTO vm_info of the loop "for vm in vms".
SaveVmInsert(p) ==
    /\ col[p].pc = "vm_insert"
    /\ col[p].todo <= Len(col[p].vms)
    /\ txn' = [txn EXCEPT !.rows = @ \cup {col[p].vms[col[p].todo]}]
    /\ col' = [col EXCEPT ![p] = [@ EXCEPT !.todo = @ + 1]]
    /\ UNCHANGED <<vm_info, host_info, collection_status, db_lock, rd,
                   attempts, last_good>>
    /\ StoreFrame

\* save_vm_data that keeps _db_lock after its commit, over the fetch_host_info
\* call that follows.
SaveVmCommitLockKept(p) ==
    /\ col[p].pc = "vm_insert"
    /\ col[p].todo > Len(col[p].vms)
    /\ vm_info' = txn.rows
    /\ txn' = NoTxn
    /\ col' = [col EXCEPT ![p] = [@ EXCEPT !.pc = "fetch_host", !.todo = 0]]
    /\ UNCHANGED <<host_info, collection_status, db_lock, rd, attempts, last_good>>
    /\ StoreFrame

\* save_vm_data: conn.commit(), and the end of the with-block releases the lock.
SaveVmCommit(p) ==
    /\ col[p].pc = "vm_insert"
    /\ col[p].todo > Len(col[p].vms)
    /\ vm_info' = txn.rows
    /\ txn' = NoTxn
    /\ db_lock' = "free"
    /\ col' = [col EXCEPT ![p] = [@ EXCEPT !.pc = "fetch_host", !.todo = 0]]
    /\ UNCHANGED <<host_info, collection_status, rd, attempts, last_good>>
    /\ StoreFrame

\* fetch_host_info: a HostInfo, or None (it catches every exception).
FetchHostInfo(p, info) ==
    /\ col[p].pc = "fetch_host"
    /\ col' = [col EXCEPT ![p] = [@ EXCEPT !.pc = "save_host", !.info = info]]
    /\ UNCHANGED <<vm_info, host_info, collection_status, db_lock, txn, rd,
                   attempts, last_good>>
    /\ StoreFrame

\* save_host_info(host_info): one locked INSERT OR REPLACE of the whole row.
SaveHostInfo(p) ==
    /\ col[p].pc = "save_host"
    /\ col[p].info # NoHostRow
    /\ LockFree
    /\ host_info' = [host_info EXCEPT ![col[p].host] = col[p].info]
    /\ last_good' = [last_good EXCEPT ![col[p].host] =
                       [known |-> TRUE, capacity |-> Capacity(col[p].info)]]
    /\ col' = [col EXCEPT ![p] = [@ EXCEPT !.pc = "ok_status"]]
    /\ UNCHANGED <<vm_info, collection_status, db_lock, txn, rd, attempts>>
    /\ StoreFrame

\* _collect_esxi_host_data, "else: save_host_info_failed(host)".
SaveHostInfoNone(p) ==
    /\ col[p].info = NoHostRow
    /\ SaveHostInfoFailed(p, "save_host", "ok_status")

\* _collect_esxi_host_data: update_collection_status(host, "success").
SuccessStatus(p) == UpdateCollectionStatus(p, "ok_status", "success", "idle")

\* _collect_esxi_host_data, "except Exception": the status, then the degraded
\* host row.
ErrorStatus(p) == UpdateCollectionStatus(p, "err_status", "error", "err_host")
ErrorHost(p)   == SaveHostInfoFailed(p, "err_host", "idle")

\* ---- the VM read handlers, run by a web request thread

\* is_host_reachable without "status is not None": a host that was never
\* polled counts as reachable.
IsHostReachableUnpolled(status) == status = NoRow \/ status = "success"

\* is_host_reachable, on the row get_collection_status returned (NoRow for
\* None): "status is not None and status.status == 'success'".
IsHostReachable(status) == status # NoRow /\ status = "success"

\* apply_unknown_power_state_if_unreachable: the VMInfo as a dict, with
\* cached_power_state added and power_state overridden when unreachable.
ApplyUnknownPowerState(row, status) ==
    [esxi_host |-> row.esxi_host, vm_name |-> row.vm_name,
     cpu_count |-> row.cpu_count, ram_mb |-> row.ram_mb,
     cached_power_state |-> row.power_state,
     power_state |-> IF row.esxi_host # "" /\ ~IsHostReachable(status)
                     THEN "unknown" ELSE row.power_state]

\* get_vms_for_host: one entry of vms_result.
VmListEntry(row, host_reachable) ==
    [esxi_host |-> row.esxi_host, vm_name |-> row.vm_name,
     cpu_count |-> row.cpu_count, ram_mb |-> row.ram_mb,
     cached_power_state |-> row.power_state,
     power_state |-> IF host_reachable THEN row.power_state ELSE "unknown"]

\* enrich_config_with_vm_data: one entry of machine_copy["vm"].
ConfigVmEntry(row, host_reachable) ==
    [esxi_host |-> row.esxi_host, name |-> row.vm_name,
     power_state |-> IF host_reachable THEN row.power_state ELSE "unknown"]

\* get_vm_info(vm_name, esxi_host): the rows its SELECT matches; h = "" is
\* "esxi_host not given".  fetchone() returns one of them.
GetVmInfoMatches(t, n, h) ==
    {r \in t : r.vm_name = n /\ (h = "" \/ r.esxi_host = h)}

\* get_all_vm_info_for_host(esxi_host).
GetAllVmInfoForHost(t, h) == RowsOf(t, h)

\* get_all_vm_info(): every row, grouped by host.
GetAllVmInfo(t) == t

\* get_all_collection_status(): host -> CollectionStatus.
GetAllCollectionStatus == collection_status

Only(h, status) == [x \in Hosts |-> IF x = h THEN status ELSE "unread"]

\* get_vm_info_api, first half: data_collector.get_vm_info under the lock.
\* Nothing found is the 404 answer.
VmInfoApiLookup(n, h) ==
    /\ rd.pc = "idle"
    /\ LockFree
    /\ \/ /\ GetVmInfoMatches(vm_info, n, h) = {}
          /\ rd' = [RdIdle EXCEPT !.pc = "done", !.kind = "single", !.host = h,
                                  !.name = n]
       \/ \E r \in GetVmInfoMatches(vm_info, n, h) :
             rd' = [RdIdle EXCEPT !.pc = "got", !.kind = "single", !.name = n,
                                  !.host = r.esxi_host, !.rows = {r}]
    /\ UNCHANGED <<vm_info, host_info, collection_status, db_lock, txn, col,
                   attempts, last_good>>
    /\ StoreFrame

\* get_vm_info_api, second half: apply_unknown_power_state_if_unreachable,
\* which reads the collection status under the lock.
VmInfoApiAnswer ==
    /\ rd.pc = "got" /\ rd.kind = "single"
    /\ LockFree
    /\ rd' = [rd EXCEPT !.pc = "done",
                 !.status = Only(rd.host, collection_status[rd.host]),
                 !.resp = {ApplyUnknownPowerState(r, collection_status[rd.host])
                              : r \in rd.rows}]
    /\ UNCHANGED <<vm_info, host_info, collection_status, db_lock, txn, col,
                   attempts, last_good>>
    /\ StoreFrame

\* get_vms_for_host, first half: get_all_vm_info_for_host under the lock.
VmsForHostLookup(h) ==
    /\ rd.pc = "idle"
    /\ LockFree
    /\ rd' = [RdIdle EXCEPT !.pc = "got", !.kind = "list", !.host = h,
                            !.rows = GetAllVmInfoForHost(vm_info, h)]
    /\ UNCHANGED <<vm_info, host_info, collection_status, db_lock, txn, col,
                   attempts, last_good>>
    /\ StoreFrame

\* get_vms_for_host, second half: is_host_reachable, then vms_result.
VmsForHostAnswer ==
    /\ rd.pc = "got" /\ rd.kind = "list"
    /\ LockFree
    /\ rd' = [rd EXCEPT !.pc = "done",
                 !.status = Only(rd.host, collection_status[rd.host]),
                 !.resp = {VmListEntry(r, IsHostReachable(collection_status[rd.host]))
                              : r \in rd.rows}]
    /\ UNCHANGED <<vm_info, host_info, collection_status, db_lock, txn, col,
                   attempts, last_good>>
    /\ StoreFrame

\* enrich_config_with_vm_data, first query: get_all_vm_info under the lock.
\* Every configured machine is an ESXi host here.
EnrichConfigLookup ==
    /\ rd.pc = "idle"
    /\ LockFree
    /\ rd' = [RdIdle EXCEPT !.pc = "got", !.kind = "config",
                            !.rows = GetAllVmInfo(vm_info)]
    /\ UNCHANGED <<vm_info, host_info, collection_status, db_lock, txn, col,
                   attempts, last_good>>
    /\ StoreFrame

\* enrich_config_with_vm_data, second query and the loop over the machines.
EnrichConfigAnswer ==
    /\ rd.pc = "got" /\ rd.kind = "config"
    /\ LockFree
    /\ rd' = [rd EXCEPT !.pc = "done",
                 !.status = GetAllCollectionStatus,
                 !.resp = {ConfigVmEntry(r,
                               GetAllCollectionStatus[r.esxi_host] # NoRow
                               /\ GetAllCollectionStatus[r.esxi_host] = "success")
                              : r \in rd.rows}]
    /\ UNCHANGED <<vm_info, host_info, collection_status, db_lock, txn, col,
                   attempts, last_good>>
    /\ StoreFrame

\* The handler returns its response.
ReadReturn ==
    /\ rd.pc = "done"
    /\ rd' = RdIdle
    /\ UNCHANGED <<vm_info, host_info, collection_status, db_lock, txn, col,
                   attempts, last_good>>
    /\ StoreFrame

NextStore ==
    \/ \E p \in Collectors, h \in Hosts, ok \in BOOLEAN : ConnectToEsxi(p, h, ok)
    \/ \E p \in Collectors : ConnFailedStatus(p)
    \/ \E p \in Collectors : ConnFailedHost(p)
    \/ \E p \in Collectors : \E res \in FetchResults(col[p].host) :
          FetchVmData(p, res, FALSE)
    \/ \E p \in Collectors : FetchVmData(p, <<>>, TRUE)
    \/ \E p \in Collectors : SaveVmBegin(p)
    \/ \E p \in Collectors : SaveVmDelete(p)
    \/ \E p \in Collectors : SaveVmInsert(p)
    \/ \E p \in Collectors : SaveVmCommit(p)
    \/ \E p \in Collectors, info \in HostInfos : FetchHostInfo(p, info)
    \/ \E p \in Collectors : SaveHostInfo(p)
    \/ \E p \in Collectors : SaveHostInfoNone(p)
    \/ \E p \in Collectors : SuccessStatus(p)
    \/ \E p \in Collectors : ErrorStatus(p)
    \/ \E p \in Collectors : ErrorHost(p)
    \/ \E n \in VMNames, h \in Hosts \cup {""} : VmInfoApiLookup(n, h)
    \/ VmInfoApiAnswer
    \/ \E h \in Hosts : VmsForHostLookup(h)
    \/ VmsForHostAnswer
    \/ EnrichConfigLookup
    \/ EnrichConfigAnswer
    \/ ReadReturn

(***************************************************************************)
(* SpecFetch: the background fetch queue of cpu_benchmark.py, called from  *)
(* concurrent request threads.                                             *)
(***************************************************************************)
CPUNames == {"i7-12700K", "E5-2699"}
Callers  == {"req1", "req2"}

CallerIdle == [pc |-> "idle", name |-> "", call |-> 0, ret |-> "none"]

InitFetch ==
    /\ pending = {}
    /\ tasks = {}
    /\ caller = [c \in Callers |-> CallerIdle]
    /\ calls = 0

FetchFrame ==
    UNCHANGED <<varsStore, varsCache, varsWorker, varsTick, varsBench, varsLater>>

\* BackgroundFetchQueue.add that does not test membership.
QueueAddAlways(pend, n) ==
    [added |-> TRUE, pending |-> pend \cup {n}]

\* BackgroundFetchQueue.add, under its lock: whether the name was added, and
\* the pending set afterwards.
QueueAdd(pend, n) ==
    [added |-> n \notin pend, pending |-> pend \cup {n}]

\* BackgroundFetchQueue.remove, under its lock.
QueueRemove(pend, n) == pend \ {n}

\* queue_background_fetch(cpu_name), up to "if not _fetch_queue.add(...)":
\* already pending returns False at once.
QueueBackgroundFetch(c, n) ==
    /\ caller[c].pc = "idle"
    /\ calls < MaxCalls
    /\ calls' = calls + 1
    /\ pending' = QueueAdd(pending, n).pending
    /\ caller' = [caller EXCEPT ![c] =
                    [pc |-> IF QueueAdd(pending, n).added THEN "start" ELSE "done",
                     name |-> n, call |-> calls + 1,
                     ret |-> IF QueueAdd(pending, n).added THEN "none" ELSE "false"]]
    /\ UNCHANGED tasks
    /\ FetchFrame

\* queue_background_fetch: threading.Thread(target=_fetch_task).start(), and
\* return True.
StartFetchThread(c) ==
    /\ caller[c].pc = "start"
    /\ tasks' = tasks \cup {[call |-> caller[c].call, name |-> caller[c].name,
                                pc |-> "fetch"]}
    /\ caller' = [caller EXCEPT ![c] = [@ EXCEPT !.pc = "done", !.ret = "true"]]
    /\ UNCHANGED <<pending, calls>>
    /\ FetchFrame

\* The caller of queue_background_fetch goes on.
FetchCallerReturn(c) ==
    /\ caller[c].pc = "done"
    /\ caller' = [caller EXCEPT ![c] = CallerIdle]
    /\ UNCHANGED <<pending, tasks, calls>>
    /\ FetchFrame

\* _fetch_task without its "finally": an exception of
\* fetch_and_save_benchmark ends the thread before _fetch_queue.remove.
FetchTaskRunNoFinally(t, outcome) ==
    /\ t \in tasks /\ t.pc = "fetch"
    /\ tasks' = IF outcome = "raise" THEN tasks \ {t}
                ELSE (tasks \ {t}) \cup
                     {[t EXCEPT !.pc = IF outcome = "found" THEN "notify" ELSE "remove"]}
    /\ UNCHANGED <<pending, caller, calls>>
    /\ FetchFrame

\* _fetch_task: fetch_and_save_benchmark returns a record, returns None, or
\* raises; only a record leads to the notification.
FetchTaskRun(t, outcome) ==
    /\ t \in tasks /\ t.pc = "fetch"
    /\ tasks' = (tasks \ {t}) \cup
                 {[t EXCEPT !.pc = IF outcome = "found" THEN "notify" ELSE "remove"]}
    /\ UNCHANGED <<pending, caller, calls>>
    /\ FetchFrame

\* _fetch_task: notify_event(EVENT_TYPE.CONTENT).
FetchTaskNotify(t) ==
    /\ t \in tasks /\ t.pc = "notify"
    /\ tasks' = (tasks \ {t}) \cup {[t EXCEPT !.pc = "remove"]}
    /\ UNCHANGED <<pending, caller, calls>>
    /\ FetchFrame

\* _fetch_task, "finally: _fetch_queue.remove(cpu_name)"; the thread ends.
FetchTaskRemove(t) ==
    /\ t \in tasks /\ t.pc = "remove"
    /\ pending' = QueueRemove(pending, t.name)
    /\ tasks' = tasks \ {t}
    /\ UNCHANGED <<caller, calls>>
    /\ FetchFrame

NextFetch ==
    \/ \E c \in Callers, n \in CPUNames : QueueBackgroundFetch(c, n)
    \/ \E c \in Callers : StartFetchThread(c)
    \/ \E c \in Callers : FetchCallerReturn(c)
    \/ \E t \in tasks, outcome \in {"found", "none", "raise"} : FetchTaskRun(t, outcome)
    \/ \E t \in tasks : FetchTaskNotify(t)
    \/ \E t \in tasks : FetchTaskRemove(t)

(***************************************************************************)
(* SpecWorker: start_collector, stop_collector and _update_worker of       *)
(* data_collector.py.  A collection pass is one step here; what it writes  *)
(* is SpecStore's subject.                                                 *)
(***************************************************************************)
ThreadIds == 1..MaxThreads

\* The caller of start_collector / stop_collector: where it is, how many calls
\* it has made, and how its last call ended.
CtlIdle == [pc |-> "idle", n |-> 0, last |-> "none"]

InitWorker ==
    /\ update_thread = 0
    /\ should_stop = FALSE
    /\ thread = [t \in ThreadIds |-> "unborn"]
    /\ ctl = CtlIdle
    /\ pass_log = [t \in ThreadIds |-> "none"]

WorkerFrame ==
    UNCHANGED <<varsStore, varsFetch, varsCache, varsTick, varsBench, varsLater>>

\* threading.Thread.is_alive(): from start() to the end of run().
IsAlive(t) == thread[t] \in {"started", "pass", "wait"}

\* start_collector without its test of the running thread.
UpdateThreadAliveUntested == FALSE

\* start_collector: "_update_thread and _update_thread.is_alive()".
UpdateThreadAlive == update_thread # 0 /\ IsAlive(update_thread)

\* The threads start_collector has not created yet.
Unborn == {t \in ThreadIds : thread[t] = "unborn"}

\* start_collector is called: init_db().
StartCollector ==
    /\ ctl.pc = "idle"
    /\ ctl.n < MaxControl
    /\ Unborn # {}
    /\ ctl' = [ctl EXCEPT !.pc = "start_check", !.n = ctl.n + 1]
    /\ UNCHANGED <<update_thread, should_stop, thread, pass_log>>
    /\ WorkerFrame

\* start_collector: "if _update_thread and _update_thread.is_alive(): return".
StartCheckAlive ==
    /\ ctl.pc = "start_check"
    /\ ctl' = IF UpdateThreadAlive
               THEN [ctl EXCEPT !.pc = "idle", !.last = "start_noop"]
               ELSE [ctl EXCEPT !.pc = "start_clear"]
    /\ UNCHANGED <<update_thread, should_stop, thread, pass_log>>
    /\ WorkerFrame

\* start_collector: _should_stop.clear().
StartClear ==
    /\ ctl.pc = "start_clear"
    /\ should_stop' = FALSE
    /\ ctl' = [ctl EXCEPT !.pc = "start_spawn"]
    /\ UNCHANGED <<update_thread, thread, pass_log>>
    /\ WorkerFrame

\* start_collector: _update_thread = threading.Thread(...); .start().
StartSpawn ==
    /\ ctl.pc = "start_spawn"
    /\ \E t \in Unborn :
          /\ \A u \in Unborn : t <= u
          /\ update_thread' = t
          /\ thread' = [thread EXCEPT ![t] = "started"]
    /\ ctl' = [ctl EXCEPT !.pc = "idle", !.last = "start_spawned"]
    /\ UNCHANGED <<should_stop, pass_log>>
    /\ WorkerFrame

\* stop_collector is called: _should_stop.set(); "if _update_thread" decides
\* whether it joins.
StopCollector ==
    /\ ctl.pc = "idle"
    /\ ctl.n < MaxControl
    /\ should_stop' = TRUE
    /\ ctl' = [pc |-> IF update_thread # 0 THEN "stop_join" ELSE "idle",
               n |-> ctl.n + 1, last |-> "stop"]
    /\ UNCHANGED <<update_thread, thread, pass_log>>
    /\ WorkerFrame

\* stop_collector: _update_thread.join(timeout=5) returns, because the thread
\* has ended or because five seconds have passed.
StopJoinReturn ==
    /\ ctl.pc = "stop_join"
    /\ ctl' = [ctl EXCEPT !.pc = "idle"]
    /\ UNCHANGED <<update_thread, should_stop, thread, pass_log>>
    /\ WorkerFrame

\* _update_worker: the initial collect_all_data() begins; nothing is tested
\* before it.
WorkerInitialPass(t) ==
    /\ thread[t] = "started"
    /\ thread' = [thread EXCEPT ![t] = "pass"]
    /\ UNCHANGED <<update_thread, should_stop, ctl, pass_log>>
    /\ WorkerFrame

\* _update_worker without its try/except around collect_all_data(): an
\* exception of the pass ends the thread.
WorkerPassEndUncaught(t, raised) ==
    /\ thread[t] = "pass"
    /\ thread' = [thread EXCEPT ![t] = IF raised THEN "dead" ELSE "wait"]
    /\ pass_log' = [pass_log EXCEPT ![t] = IF raised THEN "raised" ELSE "returned"]
    /\ UNCHANGED <<update_thread, should_stop, ctl>>
    /\ WorkerFrame

\* _update_worker: collect_all_data() returns or raises (the exception is
\* logged); the thread then waits on _should_stop.
WorkerPassEnd(t, raised) ==
    /\ thread[t] = "pass"
    /\ thread' = [thread EXCEPT ![t] = "wait"]
    /\ pass_log' = [pass_log EXCEPT ![t] = IF raised THEN "raised" ELSE "returned"]
    /\ UNCHANGED <<update_thread, should_stop, ctl>>
    /\ WorkerFrame

\* _update_worker: _should_stop.wait(UPDATE_INTERVAL_SEC) times out with the
\* signal clear, and the next collect_all_data() begins.
WorkerWaitTimeout(t) ==
    /\ thread[t] = "wait"
    /\ ~should_stop
    /\ thread' = [thread EXCEPT ![t] = "pass"]
    /\ UNCHANGED <<update_thread, should_stop, ctl, pass_log>>
    /\ WorkerFrame

\* _update_worker: _should_stop.wait returns True; the loop and the thread end.
WorkerWaitStopped(t) ==
    /\ thread[t] = "wait"
    /\ should_stop
    /\ thread' = [thread EXCEPT ![t] = "dead"]
    /\ UNCHANGED <<update_thread, should_stop, ctl, pass_log>>
    /\ WorkerFrame

NextWorker ==
    \/ StartCollector
    \/ StartCheckAlive
    \/ StartClear
    \/ StartSpawn
    \/ StopCollector
    \/ StopJoinReturn
    \/ \E t \in ThreadIds : WorkerInitialPass(t)
    \/ \E t \in ThreadIds, raised \in BOOLEAN : WorkerPassEnd(t, raised)
    \/ \E t \in ThreadIds : WorkerWaitTimeout(t)
    \/ \E t \in ThreadIds : WorkerWaitStopped(t)

(***************************************************************************)
(* SpecCache: update_all_caches, get_config, start_cache_worker,           *)
(* stop_cache_worker and _update_worker of cache_manager.py.               *)
(***************************************************************************)

\* A parsed config.yaml.  machine stands for its content; extra says what else
\* the mapping holds that JSON treats specially: "int_key", a key that is not
\* a string (YAML 1: x); "date", a YAML date, which json.dumps cannot
\* serialize; "str_key", the string key "1".
Config(m, x) == [machine |-> m, extra |-> x]

\* None: no file, a file that does not load, or no cache row.
NoConfig == Config("", "absent")

\* What load_config_from_file can return when the file loads.
FileContents ==
    { Config("a", "none"), Config("b", "none"), Config("a", "int_key"),
      Config("a", "date") }

\* json.dumps raises TypeError on a value it cannot serialize.
Serializable(v) == v.extra # "date"

\* json.loads(json.dumps(v)): what _get_cache returns for what _set_cache
\* stored.  JSON object keys are strings.
JsonRoundTrip(v) == [v EXCEPT !.extra = IF @ = "int_key" THEN "str_key" ELSE @]

\* Python truth of a dict | None: None and the empty mapping are false; every
\* content here is a non-empty mapping.
Truthy(v) == v # NoConfig

PassThreads == {"main", "worker"}

PassIdle == [pc |-> "idle", config |-> NoConfig, wrote |-> FALSE,
             differs |-> FALSE]

InitCache ==
    /\ config_file \in FileContents \cup {NoConfig}
    /\ cache_entry = NoConfig
    /\ pass = [t \in PassThreads |-> PassIdle]
    /\ passes = 0
    /\ notify_count = 0
    /\ edits = 0
    /\ cache_main = [pc |-> "idle", started |-> FALSE, cold |-> FALSE]
    /\ cache_thread = [pos |-> "none", should_stop |-> FALSE]
    /\ watch_thread = 0
    /\ watchers = {}

CacheOthersFrame ==
    UNCHANGED <<varsStore, varsFetch, varsWorker, varsTick, varsBench,
                varsStorage, varsRefresh, varsRoute, varsScore, varsBatch,
                varsUps>>

CacheFrame ==
    /\ CacheOthersFrame
    /\ UNCHANGED varsWatch

\* config.yaml is edited, created or removed.
EditConfig(v) ==
    /\ edits < MaxEdits
    /\ v # config_file
    /\ config_file' = v
    /\ edits' = edits + 1
    /\ UNCHANGED <<cache_entry, pass, passes, notify_count, cache_main,
                   cache_thread>>
    /\ CacheFrame

\* _get_cache(key): the decoded value, or None when there is no row or the
\* store raises sqlite3.Error (which it logs).
GetCache(fault) == IF fault THEN NoConfig ELSE cache_entry

\* _set_cache(key, value): the row after the call.  A sqlite3.Error is logged
\* and nothing is written.
SetCache(v, fault) == IF fault THEN cache_entry ELSE JsonRoundTrip(v)

\* Thread t is where it calls update_all_caches.
PassDue(t) ==
    IF t = "main" THEN cache_main.pc = "sync"
    ELSE \/ cache_thread.pos = "started"
         \/ cache_thread.pos = "wait" /\ ~cache_thread.should_stop

\* update_all_caches: config = load_config_from_file(); "if config".
PassLoad(t) ==
    /\ pass[t].pc = "idle"
    /\ PassDue(t)
    /\ passes < MaxPasses
    /\ passes' = passes + 1
    /\ pass' = [pass EXCEPT ![t] =
                  [PassIdle EXCEPT !.config = config_file,
                                   !.pc = IF Truthy(config_file) THEN "get" ELSE "end"]]
    /\ cache_thread' = IF t = "worker" THEN [cache_thread EXCEPT !.pos = "pass"]
                       ELSE cache_thread
    /\ UNCHANGED <<config_file, cache_entry, notify_count, edits, cache_main>>
    /\ CacheFrame

\* update_all_caches: old_config = _get_cache("config"); "if old_config != config".
PassCompare(t, fault) ==
    /\ pass[t].pc = "get"
    /\ pass' = [pass EXCEPT ![t] =
                  [@ EXCEPT !.differs = (cache_entry # pass[t].config),
                            !.pc = IF GetCache(fault) # pass[t].config
                                   THEN "set" ELSE "end"]]
    /\ UNCHANGED <<config_file, cache_entry, passes, notify_count, edits,
                   cache_main, cache_thread>>
    /\ CacheFrame

\* update_all_caches: _set_cache("config", config); updated = True.  A value
\* json.dumps cannot serialize raises TypeError out of update_all_caches.
PassSet(t, fault) ==
    /\ pass[t].pc = "set"
    /\ IF Serializable(pass[t].config)
       THEN /\ cache_entry' = SetCache(pass[t].config, fault)
            /\ pass' = [pass EXCEPT ![t] = [@ EXCEPT !.pc = "notify",
                                                      !.wrote = ~fault]]
       ELSE /\ pass' = [pass EXCEPT ![t] = [@ EXCEPT !.pc = "raised"]]
            /\ UNCHANGED cache_entry
    /\ UNCHANGED <<config_file, passes, notify_count, edits, cache_main,
                   cache_thread>>
    /\ CacheFrame

\* update_all_caches: "if updated: notify_event(EVENT_TYPE.CONTENT)".
PassNotify(t) ==
    /\ pass[t].pc = "notify"
    /\ notify_count' = notify_count + 1
    /\ pass' = [pass EXCEPT ![t] = [@ EXCEPT !.pc = "notified"]]
    /\ UNCHANGED <<config_file, cache_entry, passes, edits, cache_main,
                   cache_thread>>
    /\ CacheFrame

\* The pass of thread t is over: it returned ("end", "notified") or raised.
PassOver(t) == pass[t].pc \in {"end", "notified", "raised"}

\* The watcher threads start_db_state_watcher can return.
WatcherIds == 1..MaxPasses

\* start_cache_worker is called: init_db(), then "_watch_stop_event,
\* _watch_thread = start_db_state_watcher(...)", which starts a watcher thread
\* and overwrites the two globals; the synchronous update_all_caches() is
\* next.  The test of _update_thread.is_alive() comes after both.
StartCacheWorker ==
    /\ cache_main.pc = "idle"
    /\ passes < MaxPasses
    /\ cache_main' = [cache_main EXCEPT !.pc = "sync",
                                        !.cold = (cache_entry = NoConfig)]
    /\ LET w == CHOOSE i \in WatcherIds \ watchers :
                    \A j \in WatcherIds \ watchers : i <= j
       IN  /\ watch_thread' = w
           /\ watchers' = watchers \cup {w}
    /\ UNCHANGED <<config_file, cache_entry, pass, passes, notify_count, edits,
                   cache_thread>>
    /\ CacheOthersFrame

\* start_cache_worker after update_all_caches(): return if the thread is
\* alive, else clear the signal and start a new thread.  An exception of the
\* pass leaves start_cache_worker before that.
StartCacheWorkerFinish ==
    /\ cache_main.pc = "sync"
    /\ PassOver("main")
    /\ IF pass["main"].pc = "raised"
       THEN /\ cache_main' = [cache_main EXCEPT !.pc = "idle"]
            /\ pass' = [pass EXCEPT !["main"] = PassIdle]
            /\ UNCHANGED cache_thread
       ELSE /\ cache_main' = [cache_main EXCEPT !.pc = "returned", !.started = TRUE]
            /\ cache_thread' =
                  IF cache_thread.pos \in {"started", "pass", "wait"}
                  THEN cache_thread
                  ELSE [pos |-> "started", should_stop |-> FALSE]
            /\ UNCHANGED pass
    /\ UNCHANGED <<config_file, cache_entry, passes, notify_count, edits>>
    /\ CacheFrame

\* The caller of start_cache_worker goes on.
StartCacheWorkerReturn ==
    /\ cache_main.pc = "returned"
    /\ cache_main' = [cache_main EXCEPT !.pc = "idle"]
    /\ pass' = [pass EXCEPT !["main"] = PassIdle]
    /\ UNCHANGED <<config_file, cache_entry, passes, notify_count, edits,
                   cache_thread>>
    /\ CacheFrame

\* stop_cache_worker: _should_stop.set(), a bounded join, then "if
\* _watch_thread is not None and _watch_stop_event is not None":
\* stop_db_state_watcher ends the watcher the two globals name, and both
\* become None.
StopCacheWorker ==
    /\ cache_main.pc = "idle"
    /\ ~cache_thread.should_stop
    /\ cache_thread' = [cache_thread EXCEPT !.should_stop = TRUE]
    /\ watchers' = watchers \ {watch_thread}
    /\ watch_thread' = 0
    /\ UNCHANGED <<config_file, cache_entry, pass, passes, notify_count, edits,
                   cache_main>>
    /\ CacheOthersFrame

\* _update_worker: update_all_caches() returned, the thread waits; or it
\* raised, and the exception ends the thread (nothing catches it).
CacheWorkerPassOver ==
    /\ cache_thread.pos = "pass"
    /\ PassOver("worker")
    /\ cache_thread' = [cache_thread EXCEPT !.pos =
                           IF pass["worker"].pc = "raised" THEN "dead" ELSE "wait"]
    /\ pass' = [pass EXCEPT !["worker"] = PassIdle]
    /\ UNCHANGED <<config_file, cache_entry, passes, notify_count, edits,
                   cache_main>>
    /\ CacheFrame

\* _update_worker: _should_stop.wait returns True; the thread ends.
CacheWorkerStopped ==
    /\ cache_thread.pos = "wait"
    /\ cache_thread.should_stop
    /\ cache_thread' = [cache_thread EXCEPT !.pos = "dead"]
    /\ UNCHANGED <<config_file, cache_entry, pass, passes, notify_count, edits,
                   cache_main>>
    /\ CacheFrame

\* get_config(): the cached value if there is one; else the file, which it
\* caches when it loads (a value that does not serialize raises).
GetConfig(getFault, setFault) ==
    /\ cache_main.started
    /\ ~Truthy(GetCache(getFault))
    /\ Truthy(config_file)
    /\ Serializable(config_file)
    /\ cache_entry' = SetCache(config_file, setFault)
    /\ cache_entry' # cache_entry
    /\ UNCHANGED <<config_file, pass, passes, notify_count, edits, cache_main,
                   cache_thread>>
    /\ CacheFrame

NextCache ==
    \/ \E v \in FileContents \cup {NoConfig} : EditConfig(v)
    \/ \E t \in PassThreads : PassLoad(t)
    \/ \E t \in PassThreads, fault \in BOOLEAN : PassCompare(t, fault)
    \/ \E t \in PassThreads, fault \in BOOLEAN : PassSet(t, fault)
    \/ \E t \in PassThreads : PassNotify(t)
    \/ StartCacheWorker
    \/ StartCacheWorkerFinish
    \/ StartCacheWorkerReturn
    \/ StopCacheWorker
    \/ CacheWorkerPassOver
    \/ CacheWorkerStopped
    \/ \E getFault, setFault \in BOOLEAN : GetConfig(getFault, setFault)

(***************************************************************************)
(* SpecTick: one thread running collect_all_data: the ESXi hosts in turn,  *)
(* then the iLO power, Prometheus uptime, ZFS pool and mount families, and *)
(* the notification.  Every store function is one locked transaction and   *)
(* one step here; it can raise sqlite3.Error, which no store function of   *)
(* data_collector.py catches.                                              *)
(***************************************************************************)

\* secret["esxi_auth"], in the order of the mapping.
EsxiAuth == <<"esxi-a", "esxi-b">>

\* The source families after the ESXi hosts, in the order collect_all_data
\* calls them.
Families == <<"ilo", "uptime", "zfs", "mount">>

\* What fetch_vm_data returns in a tick.
TickFetchResults(h) ==
    { <<>>, <<VMRow(h, "vm1", 2, 4096, "poweredOn")>> }

TickIdle ==
    [pc |-> "idle", todo |-> <<>>, host |-> "", vms |-> <<>>, info |-> NoHostRow,
     updated |-> FALSE, attempted |-> {}, families |-> {}, conn_failed |-> {},
     polled |-> {}, vm_saved |-> FALSE, host_saved |-> FALSE, notes |-> 0,
     n |-> 0, changed |-> FALSE]

InitTick ==
    /\ tick = TickIdle
    /\ power_info = "no_row"
    /\ prom_host_info = "no_row"
    /\ zfs_pool_info = "no_row"
    /\ mount_info = "no_row"
    /\ data_notify = 0

TickFrame ==
    UNCHANGED <<db_lock, txn, col, rd, attempts, last_good, varsFetch, varsCache,
                varsWorker, varsBench, varsLater>>

\* The tick's position after the attempt for the current host: the next host
\* of esxi_auth, or the first family.
AfterHost(t) ==
    [t EXCEPT !.pc = IF Len(t.todo) = 0 THEN "ilo" ELSE "connect",
              !.host = IF Len(t.todo) = 0 THEN "" ELSE Head(t.todo),
              !.todo = IF Len(t.todo) = 0 THEN <<>> ELSE Tail(t.todo),
              !.attempted = IF Len(t.todo) = 0 THEN @ ELSE @ \cup {Head(t.todo)},
              !.vms = <<>>, !.info = NoHostRow,
              !.vm_saved = FALSE, !.host_saved = FALSE]

\* The tick's position when an exception leaves collect_all_data.
Raised(t) == [t EXCEPT !.pc = "raised"]

\* History: the tick has changed a stored value.
Touch(t, differs) == [t EXCEPT !.changed = @ \/ differs]

\* collect_all_data is called: load_secret(), updated = False, the first
\* host of esxi_auth.
CollectAllData ==
    /\ tick.pc = "idle"
    /\ tick.n < MaxTicks
    /\ tick' = AfterHost([TickIdle EXCEPT !.todo = EsxiAuth, !.n = tick.n + 1])
    /\ UNCHANGED <<vm_info, host_info, collection_status, power_info,
                   prom_host_info, zfs_pool_info, mount_info, data_notify>>
    /\ TickFrame

\* collect_all_data: si = connect_to_esxi(...); "if not si".
TickConnect(ok) ==
    /\ tick.pc = "connect"
    /\ tick' = [tick EXCEPT !.pc = IF ok THEN "fetch_vm" ELSE "cf_status",
                            !.conn_failed = IF ok THEN @ ELSE @ \cup {tick.host}]
    /\ UNCHANGED <<vm_info, host_info, collection_status, power_info,
                   prom_host_info, zfs_pool_info, mount_info, data_notify>>
    /\ TickFrame

\* A call of update_collection_status(host, status) at position at: the row is
\* written and the tick goes to ok, or sqlite3.Error is raised and it goes to
\* bad.
TickStatusWrite(at, status, fault, ok, bad) ==
    /\ tick.pc = at
    /\ IF fault
       THEN /\ tick' = bad
            /\ UNCHANGED collection_status
       ELSE /\ tick' = Touch(ok, collection_status[tick.host] # status)
            /\ collection_status' = [collection_status EXCEPT ![tick.host] = status]
    /\ UNCHANGED <<vm_info, host_info, power_info, prom_host_info, zfs_pool_info,
                   mount_info, data_notify>>
    /\ TickFrame

\* A call of save_host_info(row) or save_host_info_failed(host) at position
\* at, likewise.
TickHostWrite(at, row, fault, ok, bad) ==
    /\ tick.pc = at
    /\ IF fault
       THEN /\ tick' = bad
            /\ UNCHANGED host_info
       ELSE /\ tick' = Touch(ok, host_info[tick.host] # row)
            /\ host_info' = [host_info EXCEPT ![tick.host] = row]
    /\ UNCHANGED <<vm_info, collection_status, power_info, prom_host_info,
                   zfs_pool_info, mount_info, data_notify>>
    /\ TickFrame

\* The status write of the "if not si" branch as an UPDATE of every row: the
\* status of every host is set.
TickConnFailedStatusAllHosts(fault) ==
    /\ tick.pc = "cf_status"
    /\ tick' = IF fault THEN Raised(tick) ELSE Touch([tick EXCEPT !.pc = "cf_host"], TRUE)
    /\ collection_status' = IF fault THEN collection_status
                            ELSE [h \in Hosts |-> "connection_failed"]
    /\ UNCHANGED <<vm_info, host_info, power_info, prom_host_info, zfs_pool_info,
                   mount_info, data_notify>>
    /\ TickFrame

\* collect_all_data, "if not si": update_collection_status(host,
\* "connection_failed").
TickConnFailedStatus(fault) ==
    TickStatusWrite("cf_status", "connection_failed", fault,
                    [tick EXCEPT !.pc = "cf_host"], Raised(tick))

\* The "if not si" branch without its save_host_info_failed.
TickConnFailedHostSkipped(fault) ==
    /\ tick.pc = "cf_host"
    /\ tick' = IF fault THEN Raised(tick) ELSE AfterHost(tick)
    /\ UNCHANGED <<vm_info, host_info, collection_status, power_info,
                   prom_host_info, zfs_pool_info, mount_info, data_notify>>
    /\ TickFrame

\* collect_all_data, "if not si": save_host_info_failed(host); continue.
TickConnFailedHost(fault) ==
    TickHostWrite("cf_host", FailedHostRow, fault, AfterHost(tick), Raised(tick))

\* _collect_esxi_host_data: vms = fetch_vm_data(si, host), which can raise.
TickFetchVm(res, raises) ==
    /\ tick.pc = "fetch_vm"
    /\ tick' = IF raises THEN [tick EXCEPT !.pc = "err_status"]
               ELSE [tick EXCEPT !.pc = "save_vm", !.vms = res]
    /\ UNCHANGED <<vm_info, host_info, collection_status, power_info,
                   prom_host_info, zfs_pool_info, mount_info, data_notify>>
    /\ TickFrame

\* _collect_esxi_host_data: save_vm_data(host, vms), one transaction; an error
\* in it is caught by "except Exception".
TickSaveVm(fault) ==
    /\ tick.pc = "save_vm"
    /\ IF fault
       THEN /\ tick' = [tick EXCEPT !.pc = "err_status"]
            /\ UNCHANGED vm_info
       ELSE /\ tick' = Touch([tick EXCEPT !.pc = "fetch_host", !.vm_saved = TRUE],
                             RowsOf(vm_info, tick.host) # Range(tick.vms))
            /\ vm_info' = (vm_info \ RowsOf(vm_info, tick.host)) \cup Range(tick.vms)
    /\ UNCHANGED <<host_info, collection_status, power_info, prom_host_info,
                   zfs_pool_info, mount_info, data_notify>>
    /\ TickFrame

\* _collect_esxi_host_data: host_info = fetch_host_info(si, host).
TickFetchHostInfo(info) ==
    /\ tick.pc = "fetch_host"
    /\ tick' = [tick EXCEPT !.pc = "save_host", !.info = info]
    /\ UNCHANGED <<vm_info, host_info, collection_status, power_info,
                   prom_host_info, zfs_pool_info, mount_info, data_notify>>
    /\ TickFrame

\* _collect_esxi_host_data: save_host_info(host_info) "if host_info", else
\* save_host_info_failed(host).
TickSaveHost(fault) ==
    TickHostWrite("save_host",
                  IF tick.info = NoHostRow THEN FailedHostRow ELSE tick.info,
                  fault,
                  [tick EXCEPT !.pc = "ok_status", !.host_saved = TRUE],
                  [tick EXCEPT !.pc = "err_status"])

\* _collect_esxi_host_data: update_collection_status(host, "success"); return
\* True, and collect_all_data sets updated = True.
TickSuccessStatus(fault) ==
    TickStatusWrite("ok_status", "success", fault,
                    AfterHost([tick EXCEPT !.updated = TRUE,
                                           !.polled = @ \cup {tick.host}]),
                    [tick EXCEPT !.pc = "err_status"])

\* _collect_esxi_host_data, "except Exception":
\* update_collection_status(host, f"error: {e}"); an error in it leaves the
\* handler and collect_all_data.
TickErrorStatus(fault) ==
    TickStatusWrite("err_status", "error", fault,
                    [tick EXCEPT !.pc = "err_host"], Raised(tick))

\* save_host_info_failed as an UPDATE of the status column alone: the other
\* columns of an existing row stay as the last attempt wrote them.
TickErrorHostStatusOnly(fault) ==
    TickHostWrite("err_host",
                  IF host_info[tick.host] = NoHostRow THEN FailedHostRow
                  ELSE [host_info[tick.host] EXCEPT !.status = "unknown"],
                  fault, AfterHost(tick), Raised(tick))

\* _collect_esxi_host_data, "except Exception": save_host_info_failed(host);
\* return False.
TickErrorHost(fault) ==
    TickHostWrite("err_host", FailedHostRow, fault, AfterHost(tick), Raised(tick))

\* One source family after the ESXi hosts, as a whole: it fetches res for its
\* machine ("none" when the source gives nothing) and saves what whenSome or
\* whenNone say ("keep" is no write); a write can raise sqlite3.Error.
\* counts says whether its data makes collect_all_data set updated; old and
\* new are the family's table before and after.
FamilyStep(at, next, res, fault, counts, old, new) ==
    /\ tick.pc = at
    /\ tick' = IF fault THEN Raised(tick)
               ELSE Touch([tick EXCEPT !.pc = next,
                                       !.families = @ \cup {at},
                                       !.updated = @ \/ (counts /\ res # "none")],
                          old # new)

\* The value a family leaves in its table.
FamilyWrite(old, res, fault, whenNone) ==
    IF fault THEN old
    ELSE IF res # "none" THEN res
    ELSE IF whenNone = "keep" THEN old ELSE whenNone

\* collect_ilo_power_data: save_power_info when fetch_ilo_power returns data;
\* nothing is returned to collect_all_data.
CollectIloPowerData(res, fault) ==
    /\ fault => res # "none"
    /\ FamilyStep("ilo", "uptime", res, fault, FALSE, power_info,
                  FamilyWrite(power_info, res, fault, "keep"))
    /\ power_info' = FamilyWrite(power_info, res, fault, "keep")
    /\ UNCHANGED <<vm_info, host_info, collection_status, prom_host_info,
                   zfs_pool_info, mount_info, data_notify>>
    /\ TickFrame

\* collect_prometheus_uptime_data: save_host_info when there is uptime data
\* (and True is returned), else save_host_info_failed.
CollectPrometheusUptimeData(res, fault) ==
    /\ FamilyStep("uptime", "zfs", res, fault, TRUE, prom_host_info,
                  FamilyWrite(prom_host_info, res, fault, "unknown"))
    /\ prom_host_info' = FamilyWrite(prom_host_info, res, fault, "unknown")
    /\ UNCHANGED <<vm_info, host_info, collection_status, power_info,
                   zfs_pool_info, mount_info, data_notify>>
    /\ TickFrame

\* collect_prometheus_zfs_data: save_zfs_pool_info "if pools" (and True is
\* returned).
CollectPrometheusZfsData(res, fault) ==
    /\ fault => res # "none"
    /\ FamilyStep("zfs", "mount", res, fault, TRUE, zfs_pool_info,
                  FamilyWrite(zfs_pool_info, res, fault, "keep"))
    /\ zfs_pool_info' = FamilyWrite(zfs_pool_info, res, fault, "keep")
    /\ UNCHANGED <<vm_info, host_info, collection_status, power_info,
                   prom_host_info, mount_info, data_notify>>
    /\ TickFrame

\* collect_prometheus_mount_data: save_mount_info "if mounts" (and True is
\* returned).
CollectPrometheusMountData(res, fault) ==
    /\ fault => res # "none"
    /\ FamilyStep("mount", "notify", res, fault, TRUE, mount_info,
                  FamilyWrite(mount_info, res, fault, "keep"))
    /\ mount_info' = FamilyWrite(mount_info, res, fault, "keep")
    /\ UNCHANGED <<vm_info, host_info, collection_status, power_info,
                   prom_host_info, zfs_pool_info, data_notify>>
    /\ TickFrame

\* collect_all_data: "if updated: notify_event(EVENT_TYPE.DATA)"; return.
TickNotify ==
    /\ tick.pc = "notify"
    /\ tick' = [tick EXCEPT !.pc = "done", !.notes = IF tick.updated THEN 1 ELSE 0]
    /\ data_notify' = IF tick.updated THEN data_notify + 1 ELSE data_notify
    /\ UNCHANGED <<vm_info, host_info, collection_status, power_info,
                   prom_host_info, zfs_pool_info, mount_info>>
    /\ TickFrame

\* _update_worker: collect_all_data() has returned or raised (the exception is
\* logged); the worker waits for the next tick.
TickReturn ==
    /\ tick.pc \in {"done", "raised"}
    /\ tick' = [TickIdle EXCEPT !.n = tick.n]
    /\ UNCHANGED <<vm_info, host_info, collection_status, power_info,
                   prom_host_info, zfs_pool_info, mount_info, data_notify>>
    /\ TickFrame

NextTick ==
    \/ CollectAllData
    \/ \E ok \in BOOLEAN : TickConnect(ok)
    \/ \E fault \in BOOLEAN : TickConnFailedStatus(fault)
    \/ \E fault \in BOOLEAN : TickConnFailedHost(fault)
    \/ \E res \in TickFetchResults(tick.host) : TickFetchVm(res, FALSE)
    \/ TickFetchVm(<<>>, TRUE)
    \/ \E fault \in BOOLEAN : TickSaveVm(fault)
    \/ \E info \in HostInfos : TickFetchHostInfo(info)
    \/ \E fault \in BOOLEAN : TickSaveHost(fault)
    \/ \E fault \in BOOLEAN : TickSuccessStatus(fault)
    \/ \E fault \in BOOLEAN : TickErrorStatus(fault)
    \/ \E fault \in BOOLEAN : TickErrorHost(fault)
    \/ \E res \in {"none", "w100"}, fault \in BOOLEAN : CollectIloPowerData(res, fault)
    \/ \E res \in {"none", "running"}, fault \in BOOLEAN :
          CollectPrometheusUptimeData(res, fault)
    \/ \E res \in {"none", "pools"}, fault \in BOOLEAN :
          CollectPrometheusZfsData(res, fault)
    \/ \E res \in {"none", "mounts"}, fault \in BOOLEAN :
          CollectPrometheusMountData(res, fault)
    \/ TickNotify
    \/ TickReturn

(***************************************************************************)
(* SpecLookup and SpecBench: cpu_spec.db, get_benchmark, the threads that  *)
(* write the table (save_benchmark, clear_benchmark, the fetch jobs of     *)
(* queue_background_fetch), get_all_benchmarks with _benchmark_cache, and  *)
(* the locks the three store modules take around a write.                  *)
(*                                                                         *)
(* A CPU name is the sequence of its whitespace-separated words.           *)
(***************************************************************************)
FullName  == <<"Intel", "Core", "i7-12700K", "@", "3.60GHz">>
ShortName == <<"Intel", "i7-12700K">>
ModelName == <<"i7-12700K">>
OtherName == <<"Core", "i5-1135G7">>

\* The names save_benchmark is called with, and the names looked up.
SavedNames == {FullName, ShortName, ModelName, OtherName}
QueryNames == SavedNames \cup
              {<<"CORE", "I7-12700K">>, <<"Intel", "(R)", "Core", "i7-12700K">>,
               <<"i7-12700K", "Core">>, <<"i5-1135G7">>}

\* The names of the background fetches.
FetchNames == {ModelName, <<"i5-1135G7">>}

Jobs        == {"j1", "j2"}
BulkReaders == {"b1"}
Writers     == {"collector", "refresher"}

\* A row of cpu_benchmark, and get_benchmark's None.
CPUBenchmark(n, multi, single) ==
    [cpu_name |-> n, multi_thread_score |-> multi, single_thread_score |-> single]

NoBenchmark == CPUBenchmark(<<>>, NULL, NULL)

\* The word w as SQLite's LIKE compares it: ASCII letters without case.
Lower(w) ==
    CASE w \in {"i7-12700K", "I7-12700K"} -> "i7-12700k"
      [] w = "i5-1135G7" -> "i5-1135g7"
      [] w \in {"Core", "CORE"} -> "core"
      [] w = "Intel" -> "intel"
      [] w = "3.60GHz" -> "3.60ghz"
      [] w = "(R)" -> "(r)"
      [] OTHER -> w

\* a occurs in b as a run of consecutive words.
IsInfix(a, b) ==
    \E i \in 0..(Len(b) - Len(a)) : SubSeq(b, i + 1, i + Len(a)) = a

\* cpu_name LIKE '%' || pattern || '%'.
Like(name, pattern) ==
    IsInfix([i \in 1..Len(pattern) |-> Lower(pattern[i])],
            [i \in 1..Len(name) |-> Lower(name[i])])

\* normalize_cpu_name: whitespace collapsed, "@ ..." cut off, (R) and (TM)
\* removed.
NormalizeCpuName(n) ==
    LET at   == {i \in 1..Len(n) : n[i] = "@"}
        kept == IF at = {} THEN n
                ELSE SubSeq(n, 1, (CHOOSE i \in at : \A k \in at : i <= k) - 1)
        IsWord(w) == w \notin {"(R)", "(TM)"}
    IN  SelectSeq(kept, IsWord)

\* extract_model_number: the first match of the Core i3/i5/i7/i9 pattern, in
\* lower case, or "" for None.  The names of this model match no other
\* pattern of the list.
ExtractModelNumber(n) ==
    LET IsModel(w) == Lower(w) \in {"i7-12700k", "i5-1135g7"}
        found == SelectSeq(n, IsModel)
    IN  IF found = <<>> THEN "" ELSE Lower(Head(found))

\* cursor.fetchone() of a SELECT over cpu_benchmark, and the first row the
\* loop over cursor.fetchall() stops at: the first matching row in rowid
\* order, or None.
FirstRow(table, Hit(_)) ==
    LET hits == {i \in 1..Len(table) : Hit(table[i])}
    IN  IF hits = {} THEN NoBenchmark
        ELSE table[CHOOSE i \in hits : \A k \in hits : i <= k]

\* get_benchmark that compares model numbers before it tries the LIKE
\* queries.
GetBenchmarkModelNumberFirst(table, cpu_name) ==
    LET Exact(r) == r.cpu_name = cpu_name
        Raw(r)   == Like(r.cpu_name, cpu_name)
        Norm(r)  == Like(r.cpu_name, NormalizeCpuName(cpu_name))
        model    == ExtractModelNumber(cpu_name)
        Model(r) == ExtractModelNumber(r.cpu_name) = model
        row1     == FirstRow(table, Exact)
        row2     == IF row1 = NoBenchmark /\ model # ""
                    THEN FirstRow(table, Model) ELSE row1
        row3     == IF row2 = NoBenchmark THEN FirstRow(table, Raw) ELSE row2
    IN  IF row3 = NoBenchmark THEN FirstRow(table, Norm) ELSE row3

\* get_benchmark: the exact match, then LIKE with the raw name, then LIKE
\* with the normalized name, then the scan for an equal model number.
GetBenchmark(table, cpu_name) ==
    LET Exact(r) == r.cpu_name = cpu_name
        Raw(r)   == Like(r.cpu_name, cpu_name)
        Norm(r)  == Like(r.cpu_name, NormalizeCpuName(cpu_name))
        model    == ExtractModelNumber(cpu_name)
        Model(r) == ExtractModelNumber(r.cpu_name) = model
        row1     == FirstRow(table, Exact)
        row2     == IF row1 = NoBenchmark THEN FirstRow(table, Raw) ELSE row1
        row3     == IF row2 = NoBenchmark THEN FirstRow(table, Norm) ELSE row2
    IN  IF row3 = NoBenchmark /\ model # ""
        THEN FirstRow(table, Model) ELSE row3

\* The scores cpubenchmark.net lists, by model number.
Passmark(n) ==
    IF ExtractModelNumber(n) = "i7-12700k"
    THEN CPUBenchmark(FullName, 30000, 4000)
    ELSE CPUBenchmark(<<"Intel", "Core", "i5-1135G7", "@", "2.40GHz">>, 9900, 2600)

JobIdle  == [pc |-> "idle", op |-> "none", name |-> <<>>, result |-> NoBenchmark]
BulkIdle == [pc |-> "idle", rows |-> {}]
NoSnapshot == [valid |-> FALSE, rows |-> {}]
NoLookup == [name |-> <<>>, result |-> NoBenchmark, clean |-> FALSE,
             again |-> FALSE, seq |-> 0]

NoBatch == [name |-> <<>>, all |-> <<>>, result |-> NoBenchmark,
            single |-> NoBenchmark, fresh |-> FALSE]

InitBench ==
    /\ cpu_benchmark = <<>>
    /\ benchmark_cache = NoSnapshot
    /\ job = [j \in Jobs |-> JobIdle]
    /\ bulk = [b \in BulkReaders |-> BulkIdle]
    /\ lookup = NoLookup
    /\ cache_db_lock = "free"
    /\ writer = [w \in Writers |-> "idle"]
    /\ batch = NoBatch

BenchFrame ==
    UNCHANGED <<vm_info, host_info, collection_status, txn, col, rd, attempts,
                last_good, tasks, caller, calls, varsCache, varsWorker, varsTick,
                varsLater>>

\* ---- the writers of cpu_benchmark

\* A thread calls save_benchmark(n, multi, single).
SaveBenchmarkCall(j, n) ==
    /\ job[j].pc = "idle"
    /\ \/ Len(cpu_benchmark) < MaxRows
       \/ \E i \in 1..Len(cpu_benchmark) : cpu_benchmark[i].cpu_name = n
    /\ job' = [job EXCEPT ![j] =
                 [pc |-> "execute", op |-> "save", name |-> n,
                  result |-> CPUBenchmark(n, Passmark(n).multi_thread_score,
                                          Passmark(n).single_thread_score)]]
    /\ UNCHANGED <<cpu_benchmark, benchmark_cache, bulk, lookup, cache_db_lock,
                   writer, db_lock, pending>>
    /\ BenchFrame

\* A thread calls clear_benchmark(n).
ClearBenchmarkCall(j, n) ==
    /\ job[j].pc = "idle"
    /\ job' = [job EXCEPT ![j] =
                 [pc |-> "execute", op |-> "clear", name |-> n,
                  result |-> NoBenchmark]]
    /\ UNCHANGED <<cpu_benchmark, benchmark_cache, bulk, lookup, cache_db_lock,
                   writer, db_lock, pending>>
    /\ BenchFrame

\* save_benchmark / clear_benchmark: cursor.execute of the INSERT OR REPLACE
\* or the DELETE.  It opens the connection's write transaction, which SQLite
\* grants to one connection of cpu_spec.db at a time.
SaveBenchmarkExecute(j) ==
    /\ job[j].pc = "execute"
    /\ \A k \in Jobs : job[k].pc # "commit"
    /\ job' = [job EXCEPT ![j] = [@ EXCEPT !.pc = "commit"]]
    /\ UNCHANGED <<cpu_benchmark, benchmark_cache, bulk, lookup, cache_db_lock,
                   writer, db_lock, pending>>
    /\ BenchFrame

\* The table after INSERT OR REPLACE of row: a row of the same cpu_name is
\* deleted, and the new row gets the next id.
InsertOrReplace(table, row) ==
    LET Other(r) == r.cpu_name # row.cpu_name
    IN  Append(SelectSeq(table, Other), row)

\* The table after DELETE ... WHERE cpu_name = n.
DeleteRow(table, n) ==
    LET Other(r) == r.cpu_name # n
    IN  SelectSeq(table, Other)

\* save_benchmark / clear_benchmark: conn.commit().  The row is stored under
\* the cpu_name argument; fetch_and_save_benchmark passes its own argument,
\* the name that was asked for, with the scores of the result.
SaveBenchmarkCommit(j) ==
    /\ job[j].pc = "commit"
    /\ cpu_benchmark' =
          IF job[j].op = "clear" THEN DeleteRow(cpu_benchmark, job[j].name)
          ELSE InsertOrReplace(cpu_benchmark,
                   CPUBenchmark(job[j].name, job[j].result.multi_thread_score,
                                job[j].result.single_thread_score))
    /\ job' = [job EXCEPT ![j] = [@ EXCEPT !.pc = "invalidate"]]
    /\ lookup' = [lookup EXCEPT !.clean = FALSE]
    /\ UNCHANGED <<benchmark_cache, bulk, cache_db_lock, writer, db_lock, pending>>
    /\ BenchFrame

\* save_benchmark / clear_benchmark: _benchmark_cache.invalidate, and return;
\* fetch_and_save_benchmark returns its result to _fetch_task.
BenchmarkCacheInvalidate(j) ==
    /\ job[j].pc = "invalidate"
    /\ benchmark_cache' = NoSnapshot
    /\ job' = [job EXCEPT ![j] =
                 IF job[j].op = "fetch" THEN [@ EXCEPT !.pc = "notify"]
                 ELSE JobIdle]
    /\ UNCHANGED <<cpu_benchmark, bulk, lookup, cache_db_lock, writer, db_lock,
                   pending>>
    /\ BenchFrame

\* ---- get_benchmark, called by a request thread

\* get_benchmark that stores the row it found under the name asked for.
GetBenchmarkCallSaving(q) ==
    /\ lookup' = [name |-> q, result |-> GetBenchmark(cpu_benchmark, q),
                  clean |-> TRUE,
                  again |-> lookup.clean /\ lookup.name = q,
                  seq |-> 1 - lookup.seq]
    /\ cpu_benchmark' =
          IF GetBenchmark(cpu_benchmark, q) = NoBenchmark THEN cpu_benchmark
          ELSE InsertOrReplace(cpu_benchmark,
                   [GetBenchmark(cpu_benchmark, q) EXCEPT !.cpu_name = q])
    /\ UNCHANGED <<benchmark_cache, job, bulk, cache_db_lock, writer, db_lock,
                   pending>>
    /\ BenchFrame

\* One call get_benchmark(q): only SELECTs.  The call notes whether it
\* repeats the call before it with no commit in between.
GetBenchmarkCall(q) ==
    /\ lookup' = [name |-> q, result |-> GetBenchmark(cpu_benchmark, q),
                  clean |-> TRUE,
                  again |-> lookup.clean /\ lookup.name = q,
                  seq |-> 1 - lookup.seq]
    /\ UNCHANGED <<cpu_benchmark, benchmark_cache, job, bulk, cache_db_lock,
                   writer, db_lock, pending>>
    /\ BenchFrame

NextLookup ==
    \/ \E n \in SavedNames : SaveBenchmarkCall("j1", n)
    \/ \E n \in SavedNames : ClearBenchmarkCall("j1", n)
    \/ SaveBenchmarkExecute("j1")
    \/ SaveBenchmarkCommit("j1")
    \/ BenchmarkCacheInvalidate("j1")
    \/ \E q \in QueryNames : GetBenchmarkCall(q)

\* ---- get_benchmarks_batch, called by a request thread

\* a in b of two Python strings: a occurs in b, letter case kept.
Contains(b, a) == IsInfix(a, b)

\* _find_benchmark_match: the key cpu_name of the dict, then the first entry
\* in the order of the dict whose name contains the raw or the normalized
\* name, then the first entry with an equal model number.
FindBenchmarkMatch(all_benchmarks, cpu_name) ==
    LET Exact(r) == r.cpu_name = cpu_name
        Fuzzy(r) == \/ Contains(r.cpu_name, cpu_name)
                    \/ Contains(r.cpu_name, NormalizeCpuName(cpu_name))
        model    == ExtractModelNumber(cpu_name)
        Model(r) == /\ ExtractModelNumber(r.cpu_name) # ""
                    /\ ExtractModelNumber(r.cpu_name) = model
        row1     == FirstRow(all_benchmarks, Exact)
        row2     == IF row1 = NoBenchmark THEN FirstRow(all_benchmarks, Fuzzy)
                    ELSE row1
    IN  IF row2 = NoBenchmark /\ model # ""
        THEN FirstRow(all_benchmarks, Model) ELSE row2

\* get_benchmarks_batch([q]): get_all_benchmarks() answers the dict the
\* cache holds, or on a miss the dict of the SELECT in the order of the rows,
\* which it caches; then _find_benchmark_match(q, dict).  The call notes
\* what get_benchmark(q) answers on the table of this moment, and whether
\* the dict had the rows of that table.
GetBenchmarksBatchCall(q) ==
    LET all_benchmarks == IF benchmark_cache.valid THEN batch.all
                          ELSE cpu_benchmark
    IN  /\ batch' = [name |-> q, all |-> all_benchmarks,
                     result |-> FindBenchmarkMatch(all_benchmarks, q),
                     single |-> GetBenchmark(cpu_benchmark, q),
                     fresh |-> all_benchmarks = cpu_benchmark]
        /\ benchmark_cache' = [valid |-> TRUE, rows |-> Range(all_benchmarks)]
    /\ UNCHANGED <<cpu_benchmark, job, bulk, lookup, cache_db_lock, writer,
                   db_lock, pending>>
    /\ UNCHANGED <<vm_info, host_info, collection_status, txn, col, rd, attempts,
                   last_good, tasks, caller, calls, varsCache, varsWorker,
                   varsTick, varsStorage, varsRefresh, varsRoute, varsScore,
                   varsWatch, varsUps>>

NextBatch ==
    \/ \E n \in SavedNames : SaveBenchmarkCall("j1", n)
    \/ \E n \in SavedNames : ClearBenchmarkCall("j1", n)
    \/ SaveBenchmarkExecute("j1")
    \/ SaveBenchmarkCommit("j1")
    \/ BenchmarkCacheInvalidate("j1")
    \/ \E q \in QueryNames : GetBenchmarksBatchCall(q)

\* ---- the fetch job of queue_background_fetch(q)

\* queue_background_fetch(q): the name is added to the pending set and the
\* _fetch_task thread starts; a name already pending starts nothing.
QueueFetchJob(j, q) ==
    /\ job[j].pc = "idle"
    /\ QueueAdd(pending, q).added
    /\ pending' = QueueAdd(pending, q).pending
    /\ job' = [job EXCEPT ![j] =
                 [pc |-> "search", op |-> "fetch", name |-> q,
                  result |-> NoBenchmark]]
    /\ UNCHANGED <<cpu_benchmark, benchmark_cache, bulk, lookup, cache_db_lock,
                   writer, db_lock>>
    /\ BenchFrame

\* fetch_and_save_benchmark: search_cpu_benchmark(q) returns the entry of
\* the site with its name there, returns None, or raises; only an entry
\* goes on to save_benchmark.
SearchCpuBenchmark(j, outcome) ==
    /\ job[j].pc = "search"
    /\ job' = [job EXCEPT ![j] =
                 IF outcome = "found"
                 THEN [@ EXCEPT !.pc = "execute", !.result = Passmark(job[j].name)]
                 ELSE [@ EXCEPT !.pc = "remove"]]
    /\ UNCHANGED <<cpu_benchmark, benchmark_cache, bulk, lookup, cache_db_lock,
                   writer, db_lock, pending>>
    /\ BenchFrame

\* _fetch_task: "if result:" notify_event(EVENT_TYPE.CONTENT).
FetchJobNotify(j) ==
    /\ job[j].pc = "notify"
    /\ job' = [job EXCEPT ![j] = [@ EXCEPT !.pc = "remove"]]
    /\ UNCHANGED <<cpu_benchmark, benchmark_cache, bulk, lookup, cache_db_lock,
                   writer, db_lock, pending>>
    /\ BenchFrame

\* _fetch_task, "finally: _fetch_queue.remove(cpu_name)"; the thread ends.
FetchJobRemove(j) ==
    /\ job[j].pc = "remove"
    /\ pending' = QueueRemove(pending, job[j].name)
    /\ job' = [job EXCEPT ![j] = JobIdle]
    /\ UNCHANGED <<cpu_benchmark, benchmark_cache, bulk, lookup, cache_db_lock,
                   writer, db_lock>>
    /\ BenchFrame

\* ---- get_all_benchmarks, called by a request thread

\* get_all_benchmarks: _benchmark_cache.get; a snapshot is returned as it is.
GetAllBenchmarksGet(b) ==
    /\ bulk[b].pc = "idle"
    /\ bulk' = [bulk EXCEPT ![b] =
                  IF benchmark_cache.valid
                  THEN [pc |-> "idle", rows |-> benchmark_cache.rows]
                  ELSE [pc |-> "select", rows |-> {}]]
    /\ UNCHANGED <<cpu_benchmark, benchmark_cache, job, lookup, cache_db_lock,
                   writer, db_lock, pending>>
    /\ BenchFrame

\* get_all_benchmarks: the SELECT of every row.
GetAllBenchmarksSelect(b) ==
    /\ bulk[b].pc = "select"
    /\ bulk' = [bulk EXCEPT ![b] = [pc |-> "set", rows |-> Range(cpu_benchmark)]]
    /\ UNCHANGED <<cpu_benchmark, benchmark_cache, job, lookup, cache_db_lock,
                   writer, db_lock, pending>>
    /\ BenchFrame

\* get_all_benchmarks: _benchmark_cache.set(cache_key, result), and return.
GetAllBenchmarksSet(b) ==
    /\ bulk[b].pc = "set"
    /\ benchmark_cache' = [valid |-> TRUE, rows |-> bulk[b].rows]
    /\ bulk' = [bulk EXCEPT ![b] = [@ EXCEPT !.pc = "idle"]]
    /\ UNCHANGED <<cpu_benchmark, job, lookup, cache_db_lock, writer, db_lock,
                   pending>>
    /\ BenchFrame

\* BenchmarkCache.get finds the entry older than ttl_seconds.
BenchmarkCacheExpire ==
    /\ benchmark_cache.valid
    /\ benchmark_cache' = NoSnapshot
    /\ UNCHANGED <<cpu_benchmark, job, bulk, lookup, cache_db_lock, writer,
                   db_lock, pending>>
    /\ BenchFrame

\* ---- the writes of the other two store modules

\* The lock a writer's module takes around a store write:
\* data_collector._db_lock for the collector, cache_manager._db_lock for the
\* cache refresher.
GetLockedConnection(w) ==
    /\ writer[w] = "idle"
    /\ IF w = "collector"
       THEN db_lock = "free" /\ db_lock' = w /\ UNCHANGED cache_db_lock
       ELSE cache_db_lock = "free" /\ cache_db_lock' = w /\ UNCHANGED db_lock
    /\ writer' = [writer EXCEPT ![w] = "writing"]
    /\ UNCHANGED <<cpu_benchmark, benchmark_cache, job, bulk, lookup, pending>>
    /\ BenchFrame

\* The write commits, the "with" block ends and the lock is released.
ReleaseLockedConnection(w) ==
    /\ writer[w] = "writing"
    /\ IF w = "collector"
       THEN db_lock' = "free" /\ UNCHANGED cache_db_lock
       ELSE cache_db_lock' = "free" /\ UNCHANGED db_lock
    /\ writer' = [writer EXCEPT ![w] = "idle"]
    /\ UNCHANGED <<cpu_benchmark, benchmark_cache, job, bulk, lookup, pending>>
    /\ BenchFrame

NextBench ==
    \/ \E j \in Jobs, q \in FetchNames : QueueFetchJob(j, q)
    \/ \E j \in Jobs, outcome \in {"found", "none", "raise"} :
          SearchCpuBenchmark(j, outcome)
    \/ \E j \in Jobs, n \in FetchNames : ClearBenchmarkCall(j, n)
    \/ \E j \in Jobs : SaveBenchmarkExecute(j)
    \/ \E j \in Jobs : SaveBenchmarkCommit(j)
    \/ \E j \in Jobs : BenchmarkCacheInvalidate(j)
    \/ \E j \in Jobs : FetchJobNotify(j)
    \/ \E j \in Jobs : FetchJobRemove(j)
    \/ \E b \in BulkReaders : GetAllBenchmarksGet(b)
    \/ \E b \in BulkReaders : GetAllBenchmarksSelect(b)
    \/ \E b \in BulkReaders : GetAllBenchmarksSet(b)
    \/ BenchmarkCacheExpire
    \/ \E w \in Writers : GetLockedConnection(w)
    \/ \E w \in Writers : ReleaseLockedConnection(w)

(***************************************************************************)
(* SpecStorage: collect_prometheus_zfs_data and                            *)
(* collect_prometheus_mount_data, with tables zfs_pool_info and mount_info *)
(* row by row.                                                             *)
(***************************************************************************)

\* The two families: the machines with filesystem ['zfs'] and the machines
\* with a mount configuration.
StorageFamilies == {"zfs", "mount"}

\* The machines of config.yaml that both families poll, in its order.
TargetHosts == <<"nas-a", "nas-b">>

\* pool_name of a pool, mountpoint of a mount.
ItemNames == {"tank", "backup"}

\* A row of zfs_pool_info or mount_info: its host and its name.
StorageRow(h, n) == [host |-> h, name |-> n]

\* SELECT ... WHERE host = ?: the names of the rows of one host.
ItemsOf(table, h) == {r.name : r \in {x \in table : x.host = h}}

\* The worker outside collect_prometheus_*_data.  reported is history: what
\* the fetch of this cycle returned for each host it polled.
CycleIdle ==
    [pc |-> "idle", family |-> "", todo |-> <<>>, fetched |-> {},
     reported |-> <<>>, updated |-> FALSE, n |-> 0]

InitStorage ==
    /\ storage_rows = [f \in StorageFamilies |-> {}]
    /\ cycle = CycleIdle

StorageFrame ==
    UNCHANGED <<varsStore, varsFetch, varsCache, varsWorker, varsTick, varsBench,
                varsRefresh, varsRoute, varsScore, varsExtra>>

\* collect_prometheus_zfs_data / collect_prometheus_mount_data is called:
\* target hosts from the configuration, updated = False.
CollectPrometheusStorageData(f) ==
    /\ cycle.pc = "idle"
    /\ cycle.n < MaxCycles
    /\ cycle' = [CycleIdle EXCEPT !.pc = "fetch", !.family = f,
                                  !.todo = TargetHosts, !.n = cycle.n + 1]
    /\ UNCHANGED storage_rows
    /\ StorageFrame

\* pools = fetch_prometheus_zfs_pools(...) / mounts =
\* fetch_prometheus_mount_info(...): the list Prometheus gives for the host,
\* empty when it reports nothing.
FetchPrometheusStorage(res) ==
    /\ cycle.pc = "fetch"
    /\ cycle' = [cycle EXCEPT !.pc = "test", !.fetched = res,
                              !.reported = Append(@, res)]
    /\ UNCHANGED storage_rows
    /\ StorageFrame

\* save_zfs_pool_info / save_mount_info: DELETE the rows of the host, INSERT
\* one row per item, commit.
SaveStorageInfo(table, h, items) ==
    {r \in table : r.host # h} \cup {StorageRow(h, n) : n \in items}

\* The position after the host at the head of todo.
NextTarget(c) ==
    [c EXCEPT !.pc = IF Len(c.todo) = 1 THEN "done" ELSE "fetch",
              !.todo = Tail(c.todo), !.fetched = {}]

\* "if pools: save_zfs_pool_info(host, pools); updated = True" and the same
\* for mounts: an empty list saves nothing.
CollectStorageSave ==
    /\ cycle.pc = "test"
    /\ IF cycle.fetched # {}
       THEN /\ storage_rows' = [storage_rows EXCEPT ![cycle.family] =
                                   SaveStorageInfo(@, Head(cycle.todo), cycle.fetched)]
            /\ cycle' = NextTarget([cycle EXCEPT !.updated = TRUE])
       ELSE /\ cycle' = NextTarget(cycle)
            /\ UNCHANGED storage_rows
    /\ StorageFrame

\* collect_prometheus_*_data returns updated.
CollectStorageReturn ==
    /\ cycle.pc = "done"
    /\ cycle' = [CycleIdle EXCEPT !.n = cycle.n]
    /\ UNCHANGED storage_rows
    /\ StorageFrame

NextStorage ==
    \/ \E f \in StorageFamilies : CollectPrometheusStorageData(f)
    \/ \E res \in SUBSET ItemNames : FetchPrometheusStorage(res)
    \/ CollectStorageSave
    \/ CollectStorageReturn

(***************************************************************************)
(* SpecRefresh: collect_host_data (the manual refresh) next to the body of *)
(* collect_all_data's loop for the same host, on the tables of             *)
(* server_data.db.  Every save_* / update_* call is one with-block under   *)
(* _db_lock, so one step.                                                  *)
(***************************************************************************)

\* The request thread of POST /vm/refresh/<host> and the collector worker.
RefreshThreads == {"manual", "periodic"}

\* The keys of esxi_auth in the secret file, and a host that is not one.
EsxiAuthHosts == {"esxi-a"}
NoCredentialsHost == "esxi-x"

\* What fetch_vm_data returns here: no VM, or one.
RefreshFetchResults(h) == { <<>>, <<VMRow(h, "vm1", 2, 4096, "poweredOn")>> }

\* A thread outside an attempt.  last_status, wrote and notified are history
\* of the attempt: the last status it recorded, whether it wrote to the
\* store, whether it called notify_event.
AttemptIdle ==
    [pc |-> "idle", id |-> 0, host |-> "", vms |-> <<>>, info |-> NoHostRow,
     ret |-> "none", last_status |-> "none", wrote |-> FALSE,
     notified |-> FALSE]

InitRefresh ==
    /\ attempt = [t \in RefreshThreads |-> AttemptIdle]
    /\ refreshes = 0
    /\ written_by = [h \in Hosts |-> [status |-> 0, host |-> 0]]
    /\ results = [i \in 1..(MaxRefreshes + 1) |-> "none"]

RefreshFrame ==
    UNCHANGED <<db_lock, txn, col, rd, attempts, last_good, varsFetch, varsCache,
                varsWorker, tick, power_info, prom_host_info, zfs_pool_info,
                mount_info, varsBench, varsStorage, varsRoute, varsScore,
                varsExtra>>

\* collect_host_data(host) is called: "if host not in esxi_auth: return
\* False", else connect_to_esxi.
CollectHostData(h) ==
    /\ attempt["manual"].pc = "idle"
    /\ refreshes < MaxRefreshes
    /\ refreshes' = refreshes + 1
    /\ attempt' = [attempt EXCEPT !["manual"] =
          [AttemptIdle EXCEPT !.id = refreshes + 1, !.host = h,
                              !.pc = IF h \in EsxiAuthHosts THEN "connect" ELSE "return",
                              !.ret = IF h \in EsxiAuthHosts THEN "none" ELSE "false"]]
    /\ UNCHANGED <<vm_info, host_info, collection_status, data_notify, written_by,
                   results>>
    /\ RefreshFrame

\* collect_all_data: "for host, credentials in esxi_auth.items()" reaches
\* host h.
CollectAllDataHost(h) ==
    /\ attempt["periodic"].pc = "idle"
    /\ refreshes < MaxRefreshes
    /\ refreshes' = refreshes + 1
    /\ attempt' = [attempt EXCEPT !["periodic"] =
          [AttemptIdle EXCEPT !.id = refreshes + 1, !.host = h, !.pc = "connect"]]
    /\ UNCHANGED <<vm_info, host_info, collection_status, data_notify, written_by,
                   results>>
    /\ RefreshFrame

\* A step of thread t that touches no table: a becomes its position.
RefreshLocal(t, at, a) ==
    /\ attempt[t].pc = at
    /\ attempt' = [attempt EXCEPT ![t] = a]
    /\ UNCHANGED <<vm_info, host_info, collection_status, data_notify, refreshes,
                   written_by, results>>
    /\ RefreshFrame

\* si = connect_to_esxi(...); "if not si".
RefreshConnect(t, ok) ==
    RefreshLocal(t, "connect",
                 [attempt[t] EXCEPT !.pc = IF ok THEN "fetch_vm" ELSE "cf_status"])

\* The attempt of thread t has its result: collect_host_data goes on to
\* notify_event, collect_all_data to the next host.
Finish(t, ret) ==
    [attempt[t] EXCEPT !.pc = IF t = "manual" THEN "notify" ELSE "return",
                       !.ret = ret]

\* update_collection_status(host, status) by thread t at position at: the
\* row is written and t goes to ok, or sqlite3.Error is raised and t goes to
\* bad.
RefreshStatusWrite(t, at, status, fault, ok, bad) ==
    /\ attempt[t].pc = at
    /\ IF fault
       THEN /\ attempt' = [attempt EXCEPT ![t] = bad]
            /\ UNCHANGED <<collection_status, written_by>>
       ELSE /\ collection_status' =
                  [collection_status EXCEPT ![attempt[t].host] = status]
            /\ written_by' =
                  [written_by EXCEPT ![attempt[t].host].status = attempt[t].id]
            /\ attempt' = [attempt EXCEPT ![t] =
                  [ok EXCEPT !.last_status = status, !.wrote = TRUE]]
    /\ UNCHANGED <<vm_info, host_info, data_notify, refreshes, results>>
    /\ RefreshFrame

\* save_host_info(row) or save_host_info_failed(host) by thread t at
\* position at, in the same way.
RefreshHostWrite(t, at, row, fault, ok, bad) ==
    /\ attempt[t].pc = at
    /\ IF fault
       THEN /\ attempt' = [attempt EXCEPT ![t] = bad]
            /\ UNCHANGED <<host_info, written_by>>
       ELSE /\ host_info' = [host_info EXCEPT ![attempt[t].host] = row]
            /\ written_by' =
                  [written_by EXCEPT ![attempt[t].host].host = attempt[t].id]
            /\ attempt' = [attempt EXCEPT ![t] = [ok EXCEPT !.wrote = TRUE]]
    /\ UNCHANGED <<vm_info, collection_status, data_notify, refreshes, results>>
    /\ RefreshFrame

\* "if not si": update_collection_status(host, "connection_failed").
RefreshConnFailedStatus(t, fault) ==
    RefreshStatusWrite(t, "cf_status", "connection_failed", fault,
                       [attempt[t] EXCEPT !.pc = "cf_host"],
                       [attempt[t] EXCEPT !.pc = "raised"])

\* "if not si": save_host_info_failed(host); then return False (manual,
\* after notify_event) or continue (periodic).
RefreshConnFailedHost(t, fault) ==
    RefreshHostWrite(t, "cf_host", FailedHostRow, fault,
                     Finish(t, "false"), [attempt[t] EXCEPT !.pc = "raised"])

\* _collect_esxi_host_data: vms = fetch_vm_data(si, host), which can raise.
RefreshFetchVm(t, res, raises) ==
    RefreshLocal(t, "fetch_vm",
                 IF raises THEN [attempt[t] EXCEPT !.pc = "err_status"]
                 ELSE [attempt[t] EXCEPT !.pc = "save_vm", !.vms = res])

\* _collect_esxi_host_data: save_vm_data(host, vms): the rows of the host are
\* replaced by the list, or sqlite3.Error is raised into the except handler.
RefreshSaveVm(t, fault) ==
    /\ attempt[t].pc = "save_vm"
    /\ IF fault
       THEN /\ attempt' = [attempt EXCEPT ![t] = [@ EXCEPT !.pc = "err_status"]]
            /\ UNCHANGED vm_info
       ELSE /\ vm_info' = (vm_info \ RowsOf(vm_info, attempt[t].host))
                             \cup Range(attempt[t].vms)
            /\ attempt' = [attempt EXCEPT ![t] =
                  [@ EXCEPT !.pc = "fetch_host", !.wrote = TRUE]]
    /\ UNCHANGED <<host_info, collection_status, data_notify, refreshes,
                   written_by, results>>
    /\ RefreshFrame

\* _collect_esxi_host_data: host_info = fetch_host_info(si, host): a HostInfo
\* or None; a raise goes to the except handler.
RefreshFetchHost(t, info, raises) ==
    RefreshLocal(t, "fetch_host",
                 IF raises THEN [attempt[t] EXCEPT !.pc = "err_status"]
                 ELSE [attempt[t] EXCEPT !.pc = "save_host", !.info = info])

\* _collect_esxi_host_data: save_host_info(host_info) "if host_info", else
\* save_host_info_failed(host).
RefreshSaveHost(t, fault) ==
    RefreshHostWrite(t, "save_host",
                     IF attempt[t].info = NoHostRow THEN FailedHostRow
                     ELSE attempt[t].info,
                     fault,
                     [attempt[t] EXCEPT !.pc = "ok_status"],
                     [attempt[t] EXCEPT !.pc = "err_status"])

\* _collect_esxi_host_data: update_collection_status(host, "success");
\* return True.
RefreshSuccessStatus(t, fault) ==
    RefreshStatusWrite(t, "ok_status", "success", fault,
                       Finish(t, "true"), [attempt[t] EXCEPT !.pc = "err_status"])

\* _collect_esxi_host_data, "except Exception":
\* update_collection_status(host, f"error: {e}").
RefreshErrorStatus(t, fault) ==
    RefreshStatusWrite(t, "err_status", "error", fault,
                       [attempt[t] EXCEPT !.pc = "err_host"],
                       [attempt[t] EXCEPT !.pc = "raised"])

\* The except handler returning True after save_host_info_failed.
RefreshErrorHostReturnsTrue(t, fault) ==
    RefreshHostWrite(t, "err_host", FailedHostRow, fault,
                     Finish(t, "true"), [attempt[t] EXCEPT !.pc = "raised"])

\* _collect_esxi_host_data, "except Exception": save_host_info_failed(host);
\* return False.
RefreshErrorHost(t, fault) ==
    RefreshHostWrite(t, "err_host", FailedHostRow, fault,
                     Finish(t, "false"), [attempt[t] EXCEPT !.pc = "raised"])

\* collect_host_data: notify_event(EVENT_TYPE.DATA), on both of its paths
\* past the credentials test.
CollectHostDataNotify ==
    /\ attempt["manual"].pc = "notify"
    /\ data_notify' = data_notify + 1
    /\ attempt' = [attempt EXCEPT !["manual"] =
          [@ EXCEPT !.pc = "return", !.notified = TRUE]]
    /\ UNCHANGED <<vm_info, host_info, collection_status, refreshes, written_by,
                   results>>
    /\ RefreshFrame

\* The attempt of thread t is over: collect_host_data returns ret to
\* refresh_host_data, the loop of collect_all_data continues, or the
\* exception leaves the function.
RefreshReturn(t) ==
    /\ attempt[t].pc \in {"return", "raised"}
    /\ results' = [results EXCEPT ![attempt[t].id] =
                      IF attempt[t].pc = "raised" THEN "raised" ELSE attempt[t].ret]
    /\ attempt' = [attempt EXCEPT ![t] = AttemptIdle]
    /\ UNCHANGED <<vm_info, host_info, collection_status, data_notify, refreshes,
                   written_by>>
    /\ RefreshFrame

NextRefresh ==
    \/ \E h \in EsxiAuthHosts \cup {NoCredentialsHost} : CollectHostData(h)
    \/ \E h \in EsxiAuthHosts : CollectAllDataHost(h)
    \/ \E t \in RefreshThreads, ok \in BOOLEAN : RefreshConnect(t, ok)
    \/ \E t \in RefreshThreads, fault \in BOOLEAN : RefreshConnFailedStatus(t, fault)
    \/ \E t \in RefreshThreads, fault \in BOOLEAN : RefreshConnFailedHost(t, fault)
    \/ \E t \in RefreshThreads, raises \in BOOLEAN :
          \E res \in RefreshFetchResults(attempt[t].host) :
             RefreshFetchVm(t, res, raises)
    \/ \E t \in RefreshThreads, fault \in BOOLEAN : RefreshSaveVm(t, fault)
    \/ \E t \in RefreshThreads, info \in HostInfos, raises \in BOOLEAN :
          RefreshFetchHost(t, info, raises)
    \/ \E t \in RefreshThreads, fault \in BOOLEAN : RefreshSaveHost(t, fault)
    \/ \E t \in RefreshThreads, fault \in BOOLEAN : RefreshSuccessStatus(t, fault)
    \/ \E t \in RefreshThreads, fault \in BOOLEAN : RefreshErrorStatus(t, fault)
    \/ \E t \in RefreshThreads, fault \in BOOLEAN : RefreshErrorHost(t, fault)
    \/ CollectHostDataNotify
    \/ \E t \in RefreshThreads : RefreshReturn(t)

(***************************************************************************)
(* SpecRoute: GET /cpu/benchmark?cpu=...&fetch=true of webapi/cpu.py, next *)
(* to the fetch jobs of SpecBench.                                         *)
(***************************************************************************)

\* The request thread outside get_cpu_benchmark.  found is what get_benchmark
\* gave, queued what queue_background_fetch returned, pending the field of
\* the response.
RequestIdle ==
    [pc |-> "idle", name |-> <<>>, found |-> FALSE, queued |-> FALSE,
     pending |-> FALSE, n |-> 0]

InitRoute == request = RequestIdle

RouteFrame ==
    UNCHANGED <<varsStore, tasks, caller, calls, varsCache, varsWorker, varsTick,
                cpu_benchmark, benchmark_cache, bulk, lookup, cache_db_lock,
                writer, varsStorage, varsRefresh, varsScore, varsExtra>>

\* get_cpu_benchmark: result = get_benchmark(cpu_name); "if result" answers
\* with the record and pending False.
RouteGetBenchmark(q) ==
    /\ request.pc = "idle"
    /\ request.n < MaxRequests
    /\ request' =
          IF GetBenchmark(cpu_benchmark, q) # NoBenchmark
          THEN [RequestIdle EXCEPT !.pc = "respond", !.name = q, !.found = TRUE,
                                   !.n = request.n + 1]
          ELSE [RequestIdle EXCEPT !.pc = "queue", !.name = q,
                                   !.n = request.n + 1]
    /\ UNCHANGED <<pending, job>>
    /\ RouteFrame

\* get_cpu_benchmark, fetch=true: queued = queue_background_fetch(cpu_name).
\* A name that is added starts its _fetch_task thread, and "queued or ..."
\* is True without the second test; otherwise is_fetch_pending is next.
RouteQueueBackgroundFetch ==
    /\ request.pc = "queue"
    /\ pending' = QueueAdd(pending, request.name).pending
    /\ IF QueueAdd(pending, request.name).added
       THEN /\ \E k \in Jobs : job[k].pc = "idle"
            /\ LET j == CHOOSE k \in Jobs : job[k].pc = "idle"
               IN  job' = [job EXCEPT ![j] =
                              [pc |-> "search", op |-> "fetch",
                               name |-> request.name, result |-> NoBenchmark]]
            /\ request' = [request EXCEPT !.pc = "respond", !.queued = TRUE,
                                          !.pending = TRUE]
       ELSE /\ request' = [request EXCEPT !.pc = "is_pending"]
            /\ UNCHANGED job
    /\ RouteFrame

\* get_cpu_benchmark: pending = queued or is_fetch_pending(cpu_name), the
\* second read of the queue.
RouteIsFetchPending ==
    /\ request.pc = "is_pending"
    /\ request' = [request EXCEPT !.pc = "respond",
                                  !.pending = request.name \in pending]
    /\ UNCHANGED <<pending, job>>
    /\ RouteFrame

\* get_cpu_benchmark returns its response.
RouteRespond ==
    /\ request.pc = "respond"
    /\ request' = [RequestIdle EXCEPT !.n = request.n]
    /\ UNCHANGED <<pending, job>>
    /\ RouteFrame

NextRoute ==
    \/ \E q \in FetchNames : RouteGetBenchmark(q)
    \/ RouteQueueBackgroundFetch
    \/ RouteIsFetchPending
    \/ RouteRespond
    \/ \E j \in Jobs, outcome \in {"found", "none", "raise"} :
          SearchCpuBenchmark(j, outcome)
    \/ \E j \in Jobs : SaveBenchmarkExecute(j)
    \/ \E j \in Jobs : SaveBenchmarkCommit(j)
    \/ \E j \in Jobs : BenchmarkCacheInvalidate(j)
    \/ \E j \in Jobs : FetchJobNotify(j)
    \/ \E j \in Jobs : FetchJobRemove(j)

(***************************************************************************)
(* SpecScore: calculate_match_score of cpu_benchmark.py.  A name is the    *)
(* sequence of its characters; a score is in thousandths.                  *)
(***************************************************************************)

\* The names the scorer is called with.
ScoreNames ==
    {
      \* "Intel Core i7-12700K"
      <<"I", "n", "t", "e", "l", " ", "C", "o", "r", "e", " ", "i", "7",
      "-", "1", "2", "7", "0", "0", "K">>,
      \* "Intel Core i7-12700KF"
      <<"I", "n", "t", "e", "l", " ", "C", "o", "r", "e", " ", "i", "7",
      "-", "1", "2", "7", "0", "0", "K", "F">>,
      \* "Intel Xeon E5-2699 v4"
      <<"I", "n", "t", "e", "l", " ", "X", "e", "o", "n", " ", "E", "5",
      "-", "2", "6", "9", "9", " ", "v", "4">>,
      \* "Intel Xeon E5-2699 v3"
      <<"I", "n", "t", "e", "l", " ", "X", "e", "o", "n", " ", "E", "5",
      "-", "2", "6", "9", "9", " ", "v", "3">>,
      \* "Intel Xeon E3-1230 v5"
      <<"I", "n", "t", "e", "l", " ", "X", "e", "o", "n", " ", "E", "3",
      "-", "1", "2", "3", "0", " ", "v", "5">>,
      \* "Intel Xeon E3-1230 v6"
      <<"I", "n", "t", "e", "l", " ", "X", "e", "o", "n", " ", "E", "3",
      "-", "1", "2", "3", "0", " ", "v", "6">>,
      \* ""
      <<>>,
      \* "(R)"
      <<"(", "R", ")">>,
      \* "Intel Xeon"
      <<"I", "n", "t", "e", "l", " ", "X", "e", "o", "n">>,
      \* "Intel Xeon E5-2699"
      <<"I", "n", "t", "e", "l", " ", "X", "e", "o", "n", " ", "E", "5",
      "-", "2", "6", "9", "9">>,
      \* "Intel(R) Core(TM) i7-12700K @ 3.60GHz"
      <<"I", "n", "t", "e", "l", "(", "R", ")", " ", "C", "o", "r", "e",
      "(", "T", "M", ")", " ", "i", "7", "-", "1", "2", "7", "0", "0",
      "K", " ", "@", " ", "3", ".", "6", "0", "G", "H", "z">>,
      \* "AMD  Opteron"
      <<"A", "M", "D", " ", " ", "O", "p", "t", "e", "r", "o", "n">>
    }

DigitChars == {"0", "1", "2", "3", "4", "5", "6", "7", "8", "9"}
UpperChars == <<"A", "B", "C", "D", "E", "F", "G", "H", "I", "J", "K", "L", "M",
                "N", "O", "P", "Q", "R", "S", "T", "U", "V", "W", "X", "Y", "Z">>
LowerChars == <<"a", "b", "c", "d", "e", "f", "g", "h", "i", "j", "k", "l", "m",
                "n", "o", "p", "q", "r", "s", "t", "u", "v", "w", "x", "y", "z">>

\* str.lower() of one character and of a string.
LowerChar(c) ==
    IF \E i \in 1..26 : UpperChars[i] = c
    THEN LowerChars[CHOOSE i \in 1..26 : UpperChars[i] = c]
    ELSE c
LowerCase(s) == [i \in 1..Len(s) |-> LowerChar(s[i])]

\* \w of a regular expression.
IsWordChar(c) ==
    \/ c \in DigitChars \cup {"_"}
    \/ \E i \in 1..26 : c \in {UpperChars[i], LowerChars[i]}

\* s[i], or the empty string outside s.
CharAt(s, i) == IF i \in 1..Len(s) THEN s[i] ELSE ""

\* \d{k} matches at position i.
DigitsAt(s, i, k) == \A d \in 0..(k - 1) : CharAt(s, i + d) \in DigitChars

\* The end of the longest run of characters with Is from position i on
\* (i - 1 when s[i] is not one): where a greedy \w* or \s* stops.
RunEnd(s, i, Is(_)) ==
    CHOOSE j \in (i - 1)..Len(s) :
       /\ \A k \in i..j : Is(s[k])
       /\ j = Len(s) \/ ~Is(s[j + 1])
IsSpaceChar(c) == c = " "
WordRunEnd(s, i) == RunEnd(s, i, IsWordChar)
SpaceRunEnd(s, i) == RunEnd(s, i, IsSpaceChar)

\* The characters of s at the positions of K, in order.
Pick(s, K) ==
    [j \in 1..Cardinality(K) |->
        s[CHOOSE i \in K : Cardinality({k \in K : k <= i}) = j]]

\* The least position of a non-empty set: where re.search matches.
Leftmost(K) == CHOOSE i \in K : \A k \in K : i <= k

\* " ".join(s.split()) and str.strip() over the result of a join: no space
\* at either end, and one space for every run of spaces.
CollapseSpaces(s) ==
    Pick(s, {i \in 1..Len(s) :
               \/ s[i] # " "
               \/ /\ CharAt(s, i + 1) # " "
                  /\ \E k \in 1..(i - 1) : s[k] # " "
                  /\ \E k \in (i + 1)..Len(s) : s[k] # " "})

\* re.sub(r"@.*$", "", name): the name up to its first "@".
CutClockSpeed(s) ==
    LET at == {i \in 1..Len(s) : s[i] = "@"}
    IN  IF at = {} THEN s ELSE SubSeq(s, 1, Leftmost(at) - 1)

\* str.replace(w, ""): every occurrence of w removed (the occurrences of
\* "(R)" and of "(TM)" cannot overlap).
RemoveAll(s, w) ==
    LET starts == {i \in 1..(Len(s) - Len(w) + 1) :
                     SubSeq(s, i, i + Len(w) - 1) = w}
    IN  Pick(s, {i \in 1..Len(s) :
                   ~\E p \in starts : i \in p..(p + Len(w) - 1)})

\* normalize_cpu_name.
normalize_cpu_name(cpu_name) ==
    LET joined  == CollapseSpaces(cpu_name)
        cut     == CollapseSpaces(CutClockSpeed(joined))
        removed == RemoveAll(RemoveAll(cut, <<"(", "R", ")">>),
                             <<"(", "T", "M", ")">>)
    IN  CollapseSpaces(removed)

\* match.group(1).lower().replace(" ", "") of the match from i to j.
ModelOf(s, i, j) ==
    LET m == LowerCase(SubSeq(s, i, j))
    IN  Pick(m, {k \in 1..Len(m) : m[k] # " "})

\* extract_model_number: the first pattern of the list that matches, at its
\* leftmost match; <<>> for None.  The Ryzen and EPYC patterns match no
\* name here.
extract_model_number(cpu_name) ==
    LET s   == cpu_name
        e5  == {i \in 1..Len(s) :
                  /\ LowerChar(s[i]) = "e" /\ CharAt(s, i + 1) = "5"
                  /\ CharAt(s, i + 2) = "-" /\ DigitsAt(s, i + 3, 4)
                  /\ LowerChar(CharAt(s, SpaceRunEnd(s, i + 7) + 1)) = "v"
                  /\ CharAt(s, SpaceRunEnd(s, i + 7) + 2) \in DigitChars}
        ci  == {i \in 1..Len(s) :
                  /\ LowerChar(s[i]) = "i"
                  /\ CharAt(s, i + 1) \in {"3", "5", "7", "9"}
                  /\ CharAt(s, i + 2) = "-" /\ DigitsAt(s, i + 3, 4)}
        gen == {i \in 1..Len(s) : DigitsAt(s, i, 4)}
    IN  IF e5 # {}
        THEN ModelOf(s, Leftmost(e5), SpaceRunEnd(s, Leftmost(e5) + 7) + 2)
        ELSE IF ci # {}
        THEN ModelOf(s, Leftmost(ci), WordRunEnd(s, Leftmost(ci) + 3))
        ELSE IF gen # {}
        THEN ModelOf(s, Leftmost(gen), WordRunEnd(s, Leftmost(gen)))
        ELSE <<>>

\* re.search(r"v(\d)", s): group 1, or "" when there is no match.
VersionOf(s) ==
    LET at == {i \in 1..Len(s) : s[i] = "v" /\ CharAt(s, i + 1) \in DigitChars}
    IN  IF at = {} THEN "" ELSE s[Leftmost(at) + 1]

\* _match_by_model_number; NULL for None.
match_by_model_number(search_name, candidate_name, search_lower, candidate_lower) ==
    LET search_model    == extract_model_number(search_name)
        candidate_model == extract_model_number(candidate_name)
    IN  IF search_model = <<>> \/ candidate_model = <<>> THEN NULL
        ELSE IF search_model = candidate_model THEN 1000
        ELSE IF /\ ~IsInfix(search_model, candidate_model)
                /\ ~IsInfix(candidate_model, search_model) THEN NULL
        ELSE IF /\ VersionOf(search_lower) # ""
                /\ VersionOf(candidate_lower) # ""
                /\ VersionOf(search_lower) # VersionOf(candidate_lower) THEN 300
        ELSE 900

\* re.search(r"e5-(\d{4})", s): group 1, or <<>>.
XeonE5Of(s) ==
    LET at == {i \in 1..Len(s) :
                 /\ s[i] = "e" /\ CharAt(s, i + 1) = "5"
                 /\ CharAt(s, i + 2) = "-" /\ DigitsAt(s, i + 3, 4)}
    IN  IF at = {} THEN <<>> ELSE SubSeq(s, Leftmost(at) + 3, Leftmost(at) + 6)

\* _match_xeon_e5; NULL for None.
match_xeon_e5(search_lower, candidate_lower) ==
    LET search_id   == XeonE5Of(search_lower)
        candidate_id == XeonE5Of(candidate_lower)
        search_v    == VersionOf(search_lower)
        candidate_v == VersionOf(candidate_lower)
    IN  IF search_id = <<>> \/ candidate_id = <<>> THEN NULL
        ELSE IF search_id # candidate_id THEN 200
        ELSE IF search_v # "" /\ candidate_v # "" /\ search_v = candidate_v THEN 950
        ELSE IF search_v = "" /\ candidate_v = "" THEN 950
        ELSE 200

\* re.search(r"i([3579])-(\d{4,5})", s): the two groups, or <<>>.
CoreIOf(s) ==
    LET at == {i \in 1..Len(s) :
                 /\ s[i] = "i" /\ CharAt(s, i + 1) \in {"3", "5", "7", "9"}
                 /\ CharAt(s, i + 2) = "-" /\ DigitsAt(s, i + 3, 4)}
        i  == Leftmost(at)
    IN  IF at = {} THEN <<>>
        ELSE <<s[i + 1],
               SubSeq(s, i + 3, IF DigitsAt(s, i + 3, 5) THEN i + 7 ELSE i + 6)>>

\* _match_core_i; NULL for None.
match_core_i(search_lower, candidate_lower) ==
    LET search_core    == CoreIOf(search_lower)
        candidate_core == CoreIOf(candidate_lower)
    IN  IF search_core = <<>> \/ candidate_core = <<>> THEN NULL
        ELSE IF search_core = candidate_core THEN 950
        ELSE 200

\* set(re.findall(r"\w+", s)): the maximal runs of word characters.
WordsOf(s) ==
    {SubSeq(s, i, WordRunEnd(s, i)) :
        i \in {k \in 1..Len(s) :
                 IsWordChar(s[k]) /\ ~IsWordChar(CharAt(s, k - 1))}}

\* _match_by_word_overlap: len(common) / len(search_words) * 0.5, rounded
\* down to thousandths.
match_by_word_overlap(search_lower, candidate_lower) ==
    LET search_words    == WordsOf(search_lower)
        candidate_words == WordsOf(candidate_lower)
    IN  IF search_words = {} THEN 0
        ELSE (Cardinality(search_words \cap candidate_words) * 500)
                \div Cardinality(search_words)

\* calculate_match_score: the first of the five matchers that decides.
calculate_match_score(search_name, candidate_name) ==
    LET search_lower    == LowerCase(normalize_cpu_name(search_name))
        candidate_lower == LowerCase(normalize_cpu_name(candidate_name))
        by_model == match_by_model_number(search_name, candidate_name,
                                          search_lower, candidate_lower)
        by_e5    == match_xeon_e5(search_lower, candidate_lower)
        by_core  == match_core_i(search_lower, candidate_lower)
    IN  IF by_model # NULL THEN by_model
        ELSE IF search_lower = candidate_lower THEN 1000
        ELSE IF by_e5 # NULL THEN by_e5
        ELSE IF by_core # NULL THEN by_core
        ELSE match_by_word_overlap(search_lower, candidate_lower)

NoScoreCall == [search |-> <<>>, candidate |-> <<>>, score |-> NULL]

InitScore == score_call = NoScoreCall

ScoreFrame ==
    UNCHANGED <<varsStore, varsFetch, varsCache, varsWorker, varsTick, varsBench,
                varsStorage, varsRefresh, varsRoute, varsExtra>>

\* A call calculate_match_score(search_name, candidate_name) computes its
\* value.
CalculateMatchScore(search_name, candidate_name) ==
    /\ score_call = NoScoreCall
    /\ score_call' = [search |-> search_name, candidate |-> candidate_name,
                      score |-> calculate_match_score(search_name, candidate_name)]
    /\ ScoreFrame

\* The call returns to search_cpu_benchmark, which compares the value.
ScoreReturn ==
    /\ score_call # NoScoreCall
    /\ score_call' = NoScoreCall
    /\ ScoreFrame

NextScore ==
    \/ \E search_name \in ScoreNames, candidate_name \in ScoreNames :
          CalculateMatchScore(search_name, candidate_name)
    \/ ScoreReturn

(***************************************************************************)
(* SpecUps: one call fetch_all_ups_from_host(host) with no name filter and *)
(* the NUT server at the other end of its socket.  The thread sends LIST   *)
(* UPS, then LIST VAR and LIST CLIENT for each device of the answer, each  *)
(* through _send_command.  The bytes of a reply are modelled in pieces: a  *)
(* recv returns one or more of the pieces that wait, so a chunk ends at    *)
(* any boundary between pieces.  The terminator line is two pieces, the    *)
(* bytes "END LIST" and the rest of the line; an error line is the bytes   *)
(* "ERR " and the rest of the line.                                        *)
(***************************************************************************)

\* The devices LIST UPS answers, in its order.
UpsList == <<"ups1", "ups2">>

\* The commands of one call, in order: LIST UPS, then for each device LIST
\* VAR and LIST CLIENT.
LastCommand == 1 + 2 * Len(UpsList)
IsListVar(k) == k > 1 /\ k % 2 = 0
DeviceOf(k) == UpsList[k \div 2]

Piece(k, part) == [cmd |-> k, part |-> part]

\* What the server sends in reply to command k: the list, or an error.
ReplyPieces(k, kind) ==
    IF kind = "list"
    THEN <<Piece(k, "begin"), Piece(k, "lines"), Piece(k, "END LIST"),
           Piece(k, "rest")>>
    ELSE <<Piece(k, "ERR "), Piece(k, "rest")>>

\* _send_command's test after a chunk: "END LIST" in decoded or
\* decoded.startswith("ERR ").
EndOfResponse(response) ==
    \/ \E i \in 1..Len(response) : response[i].part = "END LIST"
    \/ Len(response) > 0 /\ response[1].part = "ERR "

\* _parse_list_var(lines): the lines that start with "VAR " and have a name
\* and a value; the line's own device name is not looked at.  The result
\* here is the set of devices whose VAR lines went into the dict.
ParseListVar(response) ==
    {DeviceOf(response[i].cmd) :
        i \in {j \in 1..Len(response) :
                  response[j].part = "lines" /\ IsListVar(response[j].cmd)}}

\* _parse_list_ups(lines): the lines that start with "UPS ".
ParseListUps(response) ==
    IF \E i \in 1..Len(response) : response[i].part = "lines" /\ response[i].cmd = 1
    THEN UpsList ELSE <<>>

UpsIdle == [pc |-> "idle", k |-> 0, response |-> <<>>, outcome |-> "none",
            ups_list |-> <<>>, variables |-> [d \in Range(UpsList) |-> {}]]

InitUps ==
    /\ ups = UpsIdle
    /\ wire = <<>>
    /\ upsd = [queue |-> <<>>, closed |-> FALSE]

UpsFrame ==
    UNCHANGED <<varsStore, varsFetch, varsCache, varsWorker, varsTick, varsBench,
                varsStorage, varsRefresh, varsRoute, varsScore, varsWatch,
                varsBatch>>

\* fetch_all_ups_from_host is called: connect_to_nut answers a socket, or
\* None and the call returns two empty lists.
ConnectToNut(ok) ==
    /\ ups.pc = "idle"
    /\ ups' = [ups EXCEPT !.pc = IF ok THEN "send" ELSE "done", !.k = 1]
    /\ UNCHANGED <<wire, upsd>>
    /\ UpsFrame

\* _send_command: sock.sendall(command), response = b"".  A server that has
\* closed the connection does not read the command.
SendCommand ==
    /\ ups.pc = "send"
    /\ ups' = [ups EXCEPT !.pc = "recv", !.response = <<>>, !.outcome = "none"]
    /\ upsd' = IF upsd.closed THEN upsd
               ELSE [upsd EXCEPT !.queue = Append(@, ups.k)]
    /\ UNCHANGED wire
    /\ UpsFrame

\* _send_command: sock.recv(4096) returns the first n pieces that wait;
\* "response += chunk", and the loop ends when the test of the response says
\* so.
RecvChunk(n) ==
    /\ ups.pc = "recv"
    /\ n \in 1..Len(wire)
    /\ LET response == ups.response \o SubSeq(wire, 1, n)
       IN  ups' = IF EndOfResponse(response)
                  THEN [ups EXCEPT !.response = response, !.pc = "returned",
                                   !.outcome = "terminated"]
                  ELSE [ups EXCEPT !.response = response]
    /\ wire' = SubSeq(wire, n + 1, Len(wire))
    /\ UNCHANGED upsd
    /\ UpsFrame

\* _send_command: nothing arrives for SOCKET_TIMEOUT seconds and sock.recv
\* raises socket.timeout; list_ups, get_ups_variables and get_ups_clients
\* catch OSError and answer an empty result.  What was received so far is
\* dropped, the socket stays in use.
RecvTimeout ==
    /\ ups.pc = "recv"
    /\ wire = <<>>
    /\ ~upsd.closed
    /\ ups' = [ups EXCEPT !.pc = "returned", !.response = <<>>,
                          !.outcome = "timeout"]
    /\ UNCHANGED <<wire, upsd>>
    /\ UpsFrame

\* _send_command: the peer has closed and sock.recv returns b"": "if not
\* chunk: break", the response so far is returned.
RecvClosed ==
    /\ ups.pc = "recv"
    /\ wire = <<>>
    /\ upsd.closed
    /\ ups' = [ups EXCEPT !.pc = "returned", !.outcome = "closed"]
    /\ UNCHANGED <<wire, upsd>>
    /\ UpsFrame

\* The caller of _send_command parses the lines: list_ups gives the loop its
\* devices, get_ups_variables gives the variables recorded for the device
\* of the command ("if variables:"), get_ups_clients the clients.  The next
\* command follows, or "finally: sock.close()".
CommandReturn ==
    /\ ups.pc = "returned"
    /\ LET ups_list == IF ups.k = 1 THEN ParseListUps(ups.response)
                       ELSE ups.ups_list
           variables == IF IsListVar(ups.k)
                        THEN [ups.variables EXCEPT ![DeviceOf(ups.k)] =
                                 ParseListVar(ups.response)]
                        ELSE ups.variables
           last == ups.k = 1 + 2 * Len(ups_list)
       IN  ups' = [ups EXCEPT !.ups_list = ups_list, !.variables = variables,
                              !.pc = IF last THEN "done" ELSE "send",
                              !.k = IF last THEN ups.k ELSE ups.k + 1]
    /\ UNCHANGED <<wire, upsd>>
    /\ UpsFrame

\* The server answers the oldest command it has not answered, with the list
\* or with an error line.
ServerReply(kind) ==
    /\ ~upsd.closed
    /\ upsd.queue # <<>>
    /\ wire' = wire \o ReplyPieces(Head(upsd.queue), kind)
    /\ upsd' = [upsd EXCEPT !.queue = Tail(@)]
    /\ UNCHANGED ups
    /\ UpsFrame

\* The server closes the connection.
ServerClose ==
    /\ ~upsd.closed
    /\ ups.pc \in {"send", "recv", "returned"}
    /\ upsd' = [queue |-> <<>>, closed |-> TRUE]
    /\ UNCHANGED <<ups, wire>>
    /\ UpsFrame

NextUps ==
    \/ \E ok \in BOOLEAN : ConnectToNut(ok)
    \/ SendCommand
    \/ \E n \in 1..(4 * LastCommand) : RecvChunk(n)
    \/ RecvTimeout
    \/ RecvClosed
    \/ CommandReturn
    \/ \E kind \in {"list", "error"} : ServerReply(kind)
    \/ ServerClose

(***************************************************************************)
(* The specifications.                                                     *)
(***************************************************************************)
Init ==
    /\ InitStore /\ InitFetch /\ InitCache /\ InitWorker /\ InitTick /\ InitBench
    /\ InitStorage /\ InitRefresh /\ InitRoute /\ InitScore /\ InitUps

\* The same, with no configuration file: the start of the specifications
\* whose subject is not the cache refresher.
InitNoFile == Init /\ config_file = NoConfig

SpecStore  == InitNoFile /\ [][NextStore]_vars
SpecFetch  == InitNoFile /\ [][NextFetch]_vars

\* SpecFetch with its threads scheduled: a caller that has added a name goes
\* on to start the thread, and a _fetch_task thread takes its next step
\* (fetch_and_save_benchmark ends: its HTTP requests have a timeout).
FetchFairness ==
    /\ \A c \in Callers : WF_vars(StartFetchThread(c))
    /\ \A n \in CPUNames :
          /\ WF_vars(\E t \in tasks, outcome \in {"found", "none", "raise"} :
                        t.name = n /\ FetchTaskRun(t, outcome))
          /\ WF_vars(\E t \in tasks : t.name = n /\ FetchTaskNotify(t))
          /\ WF_vars(\E t \in tasks : t.name = n /\ FetchTaskRemove(t))
SpecFetchFair == InitNoFile /\ [][NextFetch]_vars /\ FetchFairness
SpecCache  == Init /\ [][NextCache]_vars
SpecWorker == InitNoFile /\ [][NextWorker]_vars
SpecTick   == InitNoFile /\ [][NextTick]_vars
SpecLookup == InitNoFile /\ [][NextLookup]_vars
SpecBench  == InitNoFile /\ [][NextBench]_vars
SpecBatch  == InitNoFile /\ [][NextBatch]_vars
SpecStorage == InitNoFile /\ [][NextStorage]_vars
SpecRefresh == InitNoFile /\ [][NextRefresh]_vars
SpecRoute  == InitNoFile /\ [][NextRoute]_vars
SpecScore  == InitNoFile /\ [][NextScore]_vars
SpecUps    == InitNoFile /\ [][NextUps]_vars

(***************************************************************************)
(* The claims about the store (SpecStore).                                 *)
(***************************************************************************)

\* The entries of a finished response that stand for the stored row r.
EntriesFor(r) ==
    {e \in rd.resp :
        /\ e.esxi_host = r.esxi_host
        /\ (IF rd.kind = "config" THEN e.name ELSE e.vm_name) = r.vm_name}

\* What a finished VM read answered, against the rows and the collection
\* status it read.
AnswerMasksUnreachable ==
    rd.pc = "done" =>
       /\ \A r \in rd.rows :
             /\ Cardinality(EntriesFor(r)) = 1
             /\ \A e \in EntriesFor(r) :
                   /\ rd.status[r.esxi_host] # "unread"
                   /\ rd.status[r.esxi_host] = "success"
                         => e.power_state = r.power_state
                   /\ rd.status[r.esxi_host] # "success"
                         => e.power_state = "unknown"
                   /\ rd.kind # "config" =>
                         /\ e.cpu_count = r.cpu_count
                         /\ e.ram_mb = r.ram_mb
                         /\ e.cached_power_state = r.power_state
       /\ Cardinality(rd.resp) = Cardinality(rd.rows)

\* The rows a read takes are rows of the committed table vm_info, and the
\* status it takes is the stored collection status.
ReadTakesStored ==
    /\ (rd.pc = "idle" /\ rd'.pc = "got") => rd'.rows \subseteq vm_info
    /\ (rd.pc = "got" /\ rd'.pc = "done") =>
          \A h \in Hosts : rd'.status[h] \in {"unread", collection_status[h]}

\* C1: every VM read (single lookup, list for a host, config enrichment)
\* answers power_state "unknown" for a VM of a host whose collection status is
\* not success (connection_failed, error, never polled), with cpu_count,
\* ram_mb and cached_power_state as stored, and answers the stored
\* power_state when the status is success.
C1_UnknownWhenNotSuccess == []AnswerMasksUnreachable /\ [][ReadTakesStored]_vars

\* C1 happens: a VM list read of a host whose status is connection_failed has
\* answered "unknown" for a VM stored as poweredOn.
C1_Witness ==
    /\ rd.pc = "done" /\ rd.kind = "list"
    /\ rd.status[rd.host] = "connection_failed"
    /\ \E e \in rd.resp : /\ e.power_state = "unknown"
                          /\ e.cached_power_state = "poweredOn"
                          /\ e.cpu_count = 2

\* C2: after a successful collection of a host and then failed ones (status
\* not success), the host record reads status "unknown" with the capacity
\* fields (CPU threads, CPU cores, memory total) of the last successful
\* collection.
C2_CapacityKept ==
    \A h \in Hosts :
       ( /\ \A p \in Collectors : col[p].pc = "idle"
         /\ last_good[h].known
         /\ collection_status[h] \notin {"success", NoRow} )
       => /\ host_info[h].status = "unknown"
          /\ Capacity(host_info[h]) = last_good[h].capacity

\* The step that ends save_vm_data for collector p.
SaveVmCompletes(p) == col[p].pc = "vm_insert" /\ col'[p].pc = "fetch_host"

\* The names of the VMs in a set of rows.
NamesOf(rows) == {r.vm_name : r \in rows}

\* The effect of a completed save_vm_data(H, S) on the table.
SaveVmReplaces ==
    \A p \in Collectors :
       SaveVmCompletes(p) =>
          LET h == col[p].host
              S == Range(col[p].vms)
          IN /\ RowsOf(vm_info', h) = S
             /\ \A x \in NamesOf(RowsOf(vm_info, h)) \ NamesOf(S) :
                   GetVmInfoMatches(vm_info', x, h) = {}
             /\ \A r \in S : r \in GetVmInfoMatches(vm_info', r.vm_name, h)
             /\ vm_info' \ RowsOf(vm_info', h) = vm_info \ RowsOf(vm_info, h)

\* C3: when save_vm_data(H, S) completes, the stored VM set of H is exactly S
\* (a VM stored before and not in S is absent, every VM of S is present with
\* S's values) and the rows of every other host are unchanged.
C3_SaveReplacesSet == [][SaveVmReplaces]_vars

\* C3 happens: a save has completed that removed a stored VM, while the other
\* host has rows.
C3_Witness ==
    \E p \in Collectors :
       /\ col[p].pc = "fetch_host"
       /\ NamesOf(col[p].before) \ NamesOf(Range(col[p].vms)) # {}
       /\ RowsOf(vm_info, col[p].host) = Range(col[p].vms)
       /\ Range(col[p].vms) # {}
       /\ \E r \in vm_info : r.esxi_host # col[p].host

\* The complete VM sets of host h: while a save_vm_data for h is between its
\* first statement and its commit, the set before it and the new set S;
\* otherwise the stored set.
CompleteSets(h) ==
    IF \E p \in Collectors : col[p].host = h /\ col[p].pc \in {"vm_delete", "vm_insert"}
    THEN UNION {{col[p].before, Range(col[p].vms)} :
                   p \in {q \in Collectors : col[q].host = h
                                             /\ col[q].pc \in {"vm_delete", "vm_insert"}}}
    ELSE {RowsOf(vm_info, h)}

\* A read step of get_all_vm_info_for_host or get_vm_info sees a complete set.
ReadSeesCompleteSet ==
    (rd.pc = "idle" /\ rd'.pc \in {"got", "done"}) =>
       /\ rd'.kind = "list" => rd'.rows \in CompleteSets(rd'.host)
       /\ (rd'.kind = "single" /\ rd'.rows # {}) =>
             \E C \in CompleteSets(rd'.host) :
                /\ rd'.rows \subseteq C
                /\ \A r \in rd'.rows : r.vm_name = rd'.name
       /\ (rd'.kind = "single" /\ rd'.rows = {}) =>
             \A h \in (IF rd'.host = "" THEN Hosts ELSE {rd'.host}) :
                \E C \in CompleteSets(h) : rd'.name \notin NamesOf(C)

\* The committed table holds a complete set for every host at all times.
StoredSetsComplete ==
    \A h \in Hosts : RowsOf(vm_info, h) \in CompleteSets(h)

\* C4: a reader (get_vm_info, get_all_vm_info_for_host) interleaved with a
\* running save_vm_data(H, S) sees the complete set of H from before the
\* replacement or the complete new set S, never the state between the delete
\* and the commit of the inserts.
C4_ReaderSeesOldOrNew == []StoredSetsComplete /\ [][ReadSeesCompleteSet]_vars

\* C4 happens: right after a replacement that changed a non-empty set into
\* another non-empty set, a list read of that host holds the whole new set.
C4_Witness ==
    \E p \in Collectors :
       /\ col[p].pc = "fetch_host"
       /\ rd.pc = "got" /\ rd.kind = "list" /\ rd.host = col[p].host
       /\ rd.rows = Range(col[p].vms)
       /\ col[p].before # {} /\ rd.rows # {}
       /\ col[p].before # rd.rows

(***************************************************************************)
(* The claims about the background fetch queue (SpecFetch).                *)
(***************************************************************************)

\* The fetch tasks for CPU name n: the threads running, and the callers that
\* have added n and are about to start the thread.
InFlight(n) ==
    Cardinality({t \in tasks : t.name = n})
    + Cardinality({c \in Callers : caller[c].pc = "start" /\ caller[c].name = n})

\* At most one fetch per name, and a call that answered False started nothing.
OneFetchPerName ==
    /\ \A n \in CPUNames : InFlight(n) <= 1
    /\ \A n \in CPUNames : (n \in pending) <=> (InFlight(n) = 1)
    /\ \A c \in Callers :
          caller[c].ret = "false" => \A t \in tasks : t.call # caller[c].call

\* A call made while a fetch for the same name is in flight answers False and
\* starts no task.
SecondCallRefused ==
    \A c \in Callers :
       (caller[c].pc = "idle" /\ caller'[c].pc # "idle"
           /\ InFlight(caller'[c].name) = 1)
       => /\ caller'[c].ret = "false"
          /\ caller'[c].pc = "done"
          /\ tasks' = tasks

\* C5: queue_background_fetch(n) called while a fetch for n is in flight
\* returns False without starting a task, and at most one fetch task per CPU
\* name runs in every reachable state, whatever the interleaving of callers.
C5_OneFetchPerName == []OneFetchPerName /\ [][SecondCallRefused]_vars

\* C5 happens: a fetch task for a name is running and another call for that
\* name has answered False.
C5_Witness ==
    \E c \in Callers, t \in tasks :
       /\ caller[c].ret = "false"
       /\ t.name = caller[c].name
       /\ t.pc = "fetch"
       /\ t.call # caller[c].call

(***************************************************************************)
(* The claims about the cache refresher (SpecCache).                       *)
(***************************************************************************)

\* No update_all_caches is between its load and its end.
NoPassRunning ==
    \A t \in PassThreads : pass[t].pc \in {"idle", "end", "notified", "raised"}

\* C6: update_all_caches run any number of times while the configuration
\* source stays the same (here: a plain mapping that JSON keeps as it is)
\* notifies exactly once in total: the first pass, on the cold cache, notifies
\* and no later pass does.
C6_OneNotification ==
    ( /\ edits = 0
      /\ Truthy(config_file) /\ config_file.extra = "none"
      /\ passes >= 1
      /\ NoPassRunning )
    => notify_count = 1

\* C7: a pass notifies if and only if the content it loaded differs from the
\* stored cache entry, and a pass that notifies has overwritten the entry
\* before: no notification for a pass that left the entry as it was.
C7_NotifyIffOverwritten ==
    \A t \in PassThreads :
       /\ pass[t].pc \in {"notify", "notified"} => pass[t].differs /\ pass[t].wrote
       /\ (pass[t].pc = "end" /\ Truthy(pass[t].config)) => ~pass[t].differs

\* C8: when start_cache_worker returns, having found the cache cold and a
\* source file that loads and is not empty, the cache entry holds the file's
\* content (as JSON gives it back).
C8_WarmAtReturn ==
    ( /\ cache_main.pc = "returned"
      /\ cache_main.cold
      /\ Truthy(pass["main"].config) )
    => cache_entry \in {JsonRoundTrip(pass["main"].config), JsonRoundTrip(config_file)}

(***************************************************************************)
(* The claims about the collector worker (SpecWorker).                     *)
(***************************************************************************)

\* At most one collector thread is alive.
OneCollectorThread == Cardinality({t \in ThreadIds : IsAlive(t)}) <= 1

\* The step of start_collector that finds the worker alive returns, and
\* leaves the thread, the threads and the stop signal as they are.
RedundantStartIsNoOp ==
    (ctl.pc = "start_check" /\ ctl' # ctl /\ UpdateThreadAlive)
    => /\ ctl'.pc = "idle"
       /\ UNCHANGED <<update_thread, thread, should_stop>>

\* C9: under any sequence of start_collector and stop_collector calls at most
\* one collector thread is alive, and a start made while the worker runs
\* creates no thread and does not change the stop signal.
C9_StartIdempotent == []OneCollectorThread /\ [][RedundantStartIsNoOp]_vars

\* C9 happens: a start that found the worker alive has returned; the worker
\* is still alive and the stop signal, set before that start, is still set.
C9_Witness ==
    /\ ctl.pc = "idle" /\ ctl.last = "start_noop"
    /\ should_stop
    /\ \E t \in ThreadIds : IsAlive(t)

\* C10: once the stop signal is set, the collector worker begins no new
\* collection pass.
C10_NoPassAfterStop ==
    [][\A t \in ThreadIds :
          (thread[t] # "pass" /\ thread'[t] = "pass") => ~should_stop]_vars

(***************************************************************************)
(* The claims about one collection tick (SpecTick).                        *)
(***************************************************************************)

\* C11: within one tick every configured target is attempted: a failure
\* while connecting to, fetching from or recording the result of one target
\* (a failure of the status or degraded-record write included) prevents
\* neither the remaining ESXi hosts nor the later families (power, uptime,
\* pools, mounts) from being collected.
C11_EveryTargetAttempted ==
    tick.pc \in {"done", "raised"} =>
       /\ tick.attempted = Range(EsxiAuth)
       /\ tick.families = Range(Families)

\* After a tick that returned: a host whose connection failed has status
\* connection_failed and a host record with status unknown and every metric
\* null; a host whose poll completed has status success.
TickLeavesStatus ==
    tick.pc = "done" =>
       /\ \A h \in tick.conn_failed :
             /\ collection_status[h] = "connection_failed"
             /\ host_info[h].status = "unknown"
             /\ host_info[h].boot_time = NULL
             /\ host_info[h].cpu_threads = NULL
             /\ host_info[h].cpu_cores = NULL
             /\ host_info[h].memory_total_bytes = NULL
       /\ \A h \in tick.polled : collection_status[h] = "success"

\* A step that makes a host's status success is the last write of its poll:
\* the VM set and the host record of this attempt are in the store.
SuccessWrittenLast ==
    \A h \in Hosts :
       (collection_status'[h] = "success" /\ tick'.polled # tick.polled
           /\ h \in tick'.polled \ tick.polled)
       => /\ tick.pc = "ok_status" /\ tick.host = h
          /\ tick.vm_saved /\ tick.host_saved
          /\ RowsOf(vm_info, h) = Range(tick.vms)
          /\ host_info[h] = (IF tick.info = NoHostRow THEN FailedHostRow ELSE tick.info)

\* No other step writes success.
SuccessOnlyByPoll ==
    \A h \in Hosts :
       (collection_status'[h] = "success" /\ collection_status[h] # "success")
       => h \in tick'.polled \ tick.polled

\* C12: for every ESXi host polled in a tick, a failed connection leaves
\* status connection_failed and a host record with status unknown and null
\* metrics after the tick, and status success is written only after the VM
\* set and the host record have been written.
C12_StatusAfterRecords ==
    []TickLeavesStatus /\ [][SuccessWrittenLast /\ SuccessOnlyByPoll]_vars

\* C12 happens: a tick has returned in which one host's connection failed and
\* the other host's poll completed.
C12_Witness ==
    /\ tick.pc = "done"
    /\ tick.conn_failed # {} /\ tick.polled # {}
    /\ \E h \in tick.conn_failed : host_info[h] = FailedHostRow

\* The two writes of a failed connection to host H leave every other record
\* as it is.
ConnFailedWritesOnlyOwn ==
    (tick.pc \in {"cf_status", "cf_host"} /\ tick' # tick) =>
       /\ UNCHANGED <<vm_info, power_info, prom_host_info, zfs_pool_info,
                      mount_info>>
       /\ \A h \in Hosts \ {tick.host} :
             /\ collection_status'[h] = collection_status[h]
             /\ host_info'[h] = host_info[h]
       /\ tick.pc = "cf_status" => host_info' = host_info
       /\ tick.pc = "cf_host" => collection_status' = collection_status

\* C13: a collection attempt for host H whose connection fails writes only
\* the collection status and the host record of H; the VM rows of H, the
\* power, pool and mount records and every record of the other hosts stay as
\* they are.
C13_ConnFailedFrame == [][ConnFailedWritesOnlyOwn]_vars

\* C13 happens: the failed-connection writes for a host are done while the
\* store holds VM rows of that host, power, pool and mount records and a
\* success status of the other host, all from an earlier tick.
C13_Witness ==
    \E h \in tick.conn_failed :
       /\ tick.host # h
       /\ collection_status[h] = "connection_failed"
       /\ host_info[h] = FailedHostRow
       /\ RowsOf(vm_info, h) # {}
       /\ power_info # "no_row" /\ zfs_pool_info # "no_row" /\ mount_info # "no_row"
       /\ tick.pc = "connect"
       /\ collection_status[tick.host] = "success"

\* C14: a full tick that returns has emitted exactly one notification if it
\* changed the stored state of any target (a target that went from reachable
\* to unreachable included), and never more than one.
C14_OneNotificationPerTick ==
    tick.pc = "done" =>
       /\ tick.changed => tick.notes = 1
       /\ tick.notes <= 1

(***************************************************************************)
(* The claims about get_benchmark (SpecLookup).                            *)
(***************************************************************************)

\* The rows of the table that answer query q under each strategy.
ExactRows(q) ==
    {i \in 1..Len(cpu_benchmark) : cpu_benchmark[i].cpu_name = q}

RawRows(q) ==
    {i \in 1..Len(cpu_benchmark) : Like(cpu_benchmark[i].cpu_name, q)}

NormalizedRows(q) ==
    {i \in 1..Len(cpu_benchmark) :
        Like(cpu_benchmark[i].cpu_name, NormalizeCpuName(q))}

ModelRows(q) ==
    {i \in 1..Len(cpu_benchmark) :
        /\ ExtractModelNumber(q) # ""
        /\ ExtractModelNumber(cpu_benchmark[i].cpu_name) = ExtractModelNumber(q)}

\* r is the row at one of the positions of rows.
RowAmong(r, rows) == \E i \in rows : r = cpu_benchmark[i]

\* r is the earliest row of the table among the positions of rows.
RowFirstAmong(r, rows) ==
    \E i \in rows : r = cpu_benchmark[i] /\ \A k \in rows : i <= k

\* C15: get_benchmark returns the hit of the first strategy that has one:
\* the row whose name equals the query; else a row whose name contains the
\* raw query; else a row whose name contains the normalized query; else the
\* first row in table order with the query's model number; else nothing.
\* With only ("Intel Core i7-12700K @ 3.60GHz", 30000, 4000) stored, the
\* query "i7-12700K" returns that row.
C15_StrategiesInOrder ==
    lookup.clean =>
        LET q == lookup.name
            r == lookup.result
        IN  /\ IF ExactRows(q) # {} THEN RowAmong(r, ExactRows(q))
               ELSE IF RawRows(q) # {} THEN RowAmong(r, RawRows(q))
               ELSE IF NormalizedRows(q) # {} THEN RowAmong(r, NormalizedRows(q))
               ELSE IF ModelRows(q) # {} THEN RowFirstAmong(r, ModelRows(q))
               ELSE r = NoBenchmark
            /\ (cpu_benchmark = <<CPUBenchmark(FullName, 30000, 4000)>>
                  /\ q = ModelName)
                 => r = CPUBenchmark(FullName, 30000, 4000)

\* The example of the claim has happened.
C15_Witness ==
    /\ lookup.clean
    /\ cpu_benchmark = <<CPUBenchmark(FullName, 30000, 4000)>>
    /\ lookup.name = ModelName
    /\ lookup.result = CPUBenchmark(FullName, 30000, 4000)

C17_StoredUnderSourceName ==
    [][\A j \in Jobs :
          (job[j].op = "fetch" /\ job[j].pc = "commit"
              /\ job'[j].pc = "invalidate")
            => cpu_benchmark'[Len(cpu_benchmark')].cpu_name
                  = job[j].result.cpu_name]_vars

\* What get_all_benchmarks returns to a call that starts now.
BulkView ==
    IF benchmark_cache.valid THEN benchmark_cache.rows ELSE Range(cpu_benchmark)

\* No write has committed without having invalidated the cache yet.
NoWriteReturning == \A k \in Jobs : job[k].pc # "invalidate"

\* C18: a fetch job about to fire its notification has committed its row
\* and invalidated the cache, so that a read at the notification returns
\* the row stored for its name; a job that resolved nothing neither writes
\* nor notifies.
C18_NotificationAfterWrite ==
    \A j \in Jobs :
       /\ (job[j].pc = "notify" /\ NoWriteReturning)
             => \A r \in Range(cpu_benchmark) :
                   r.cpu_name = job[j].name => r \in BulkView
       /\ (job[j].op = "fetch" /\ job[j].result = NoBenchmark)
             => job[j].pc \in {"search", "remove"}

\* C19: the cache holds no snapshot taken before a write that has returned:
\* with no write between its commit and its invalidation, a snapshot in the
\* cache is the table.
C19_CacheNeverStale ==
    (benchmark_cache.valid /\ NoWriteReturning)
       => benchmark_cache.rows = Range(cpu_benchmark)

\* The threads inside a store write: a job between the execute and the
\* commit of its statement, the collector and the refresher inside theirs.
StoreWriters ==
    {j \in Jobs : job[j].pc = "commit"} \cup {w \in Writers : writer[w] = "writing"}

\* C20: store writes are serialized by one lock: no two threads are inside
\* a store write at the same time.
C20_WritesSerialized == Cardinality(StoreWriters) <= 1

(***************************************************************************)
(* The claims about readers and remote calls (SpecStore).                  *)
(***************************************************************************)

\* Thread p is at a call of a remote adapter: fetch_vm_data or
\* fetch_host_info of the connection connect_to_esxi gave it.
AtRemoteCall(p) == col[p].pc \in {"fetch_vm", "fetch_host"}

\* Thread p is inside a with-block of _get_locked_connection.
AtLocalStoreOperation(p) == col[p].pc \in {"vm_delete", "vm_insert"}

\* C21: the lock a reader takes is never held while a collecting thread is
\* at a remote call: whoever holds it is inside a local store operation.
C21_NoLockOverRemoteCall ==
    \A p \in Collectors :
       /\ AtRemoteCall(p) => db_lock # p
       /\ db_lock = p => AtLocalStoreOperation(p)

\* A read handler is between its two store reads while the collector is at
\* a remote call, and the lock is free for it.
C21_Witness ==
    /\ rd.pc = "got"
    /\ AtRemoteCall("worker")
    /\ LockFree

(***************************************************************************)
(* The claims about failures of the store and of the workers' passes.      *)
(***************************************************************************)

\* C22: an error the store raises in an entity write is caught where the
\* write is called, so it never leaves collect_all_data: no tick ends by a
\* propagated sqlite3.Error.
C22_StoreErrorCaughtAtCallSite == tick.pc # "raised"

\* C23: an exception of a collection pass does not end the collector worker.
\* A worker thread ends in one way only: from its wait, with the stop signal
\* set; whatever way a pass ends, the thread goes on to its wait.
C23_WorkerSurvivesFailingPass ==
    [][\A t \in ThreadIds :
          /\ (IsAlive(t) /\ thread'[t] = "dead") =>
                 (thread[t] = "wait" /\ should_stop)
          /\ thread[t] = "pass" => thread'[t] \in {"pass", "wait"}]_vars

\* A worker runs a pass after a pass of its own that raised.
C23_Witness ==
    \E t \in ThreadIds : pass_log[t] = "raised" /\ thread[t] = "pass"

\* C24: a failure inside a refresh pass does not end the cache refresher.
\* Its thread ends in one way only: with the stop signal set.
C24_RefresherSurvivesFailingPass ==
    [][(cache_thread.pos # "dead" /\ cache_thread'.pos = "dead") =>
           cache_thread.should_stop]_vars

(***************************************************************************)
(* The claims about the rows of host_info.                                 *)
(***************************************************************************)

\* The row is all of what one attempt wrote: what fetch_host_info returned,
\* with status "running", or status "unknown" with every other field None.
WholeHostRow(row) ==
    /\ row.status \in {"running", "unknown"}
    /\ row.status = "running" => row \in HostInfos
    /\ row.status = "unknown" =>
          /\ row.boot_time = NULL
          /\ row.cpu_threads = NULL
          /\ row.cpu_cores = NULL
          /\ row.memory_total_bytes = NULL

\* C29: every row of host_info is a whole-row write of one attempt: its
\* status is running or unknown, and with unknown every other field is null.
C29_HostRecordWhole ==
    \A h \in Hosts : host_info[h] # NoHostRow => WholeHostRow(host_info[h])

\* In its second tick the worker has written the degraded row of a host
\* whose collection failed, next to a running row of the other host.
C29_Witness ==
    /\ tick.n = 2
    /\ \E h \in tick.attempted, g \in Hosts :
          /\ host_info[h] = FailedHostRow
          /\ collection_status[h] = "error"
          /\ host_info[g].status = "running"

(***************************************************************************)
(* The claims about tables zfs_pool_info and mount_info (SpecStorage).     *)
(***************************************************************************)

\* C25: when a cycle of a family is over, the stored rows of every host it
\* polled are exactly the items reported for that host in the cycle.
C25_StoredEqualsReported ==
    cycle.pc = "done" =>
       \A i \in 1..Len(TargetHosts) :
          ItemsOf(storage_rows[cycle.family], TargetHosts[i]) = cycle.reported[i]

(***************************************************************************)
(* The claims about collect_host_data (SpecRefresh).                       *)
(***************************************************************************)

\* C26: when collect_host_data returns, it returns True exactly if the last
\* status its attempt recorded is success; for a host without credentials it
\* returns False and has written nothing and notified nobody.
C26_RefreshReportsOutcome ==
    LET a == attempt["manual"] IN
    a.pc = "return" =>
       /\ a.ret \in {"true", "false"}
       /\ a.ret = "true" <=> a.last_status = "success"
       /\ a.host \notin EsxiAuthHosts =>
             (a.ret = "false" /\ ~a.wrote /\ ~a.notified)

\* A manual refresh returns True after recording success.
C26_Witness ==
    /\ attempt["manual"].pc = "return"
    /\ attempt["manual"].ret = "true"
    /\ attempt["manual"].last_status = "success"

\* A manual refresh returns False after its except handler recorded an
\* error.
C26_WitnessFailed ==
    /\ attempt["manual"].pc = "return"
    /\ attempt["manual"].ret = "false"
    /\ attempt["manual"].last_status = "error"

\* Both threads are outside an attempt, and every attempt so far returned:
\* none was ended by an error of the store.
AllFinished ==
    /\ \A t \in RefreshThreads : attempt[t].pc = "idle"
    /\ \A i \in DOMAIN results : results[i] # "raised"

\* The status row and the host row of h were written by two attempts, and
\* the one that wrote the host row returned ret.
HostRowOfOther(h, ret) ==
    /\ written_by[h].host # 0
    /\ written_by[h].status # written_by[h].host
    /\ results[written_by[h].host] = ret

\* C30: once the manual refresh and the periodic pass have finished, status
\* success is not paired with the degraded host row of the other, failed
\* attempt, and status connection_failed or error is not paired with the
\* running host row of the other, successful attempt.
C30_StatusAndHostRowOfOneAttempt ==
    AllFinished =>
       \A h \in Hosts :
          /\ ~ /\ collection_status[h] = "success"
               /\ host_info[h] = FailedHostRow
               /\ HostRowOfOther(h, "false")
          /\ ~ /\ collection_status[h] \in {"connection_failed", "error"}
               /\ host_info[h].status = "running"
               /\ HostRowOfOther(h, "true")

\* The second half of C30 alone.
FailureStatusNotWithOthersRunningRow ==
    AllFinished =>
       \A h \in Hosts :
          ~ /\ collection_status[h] \in {"connection_failed", "error"}
            /\ host_info[h].status = "running"
            /\ HostRowOfOther(h, "true")

(***************************************************************************)
(* The claim about GET /cpu/benchmark (SpecRoute).                         *)
(***************************************************************************)

\* C27: a request with fetch=true that found no record answers pending =
\* true, as long as no record of the name has been stored meanwhile.
C27_NoRecordAnswersPending ==
    (/\ request.pc = "respond"
     /\ ~request.found
     /\ GetBenchmark(cpu_benchmark, request.name) = NoBenchmark)
       => request.pending

(***************************************************************************)
(* The claim about calculate_match_score (SpecScore).                      *)
(***************************************************************************)

\* The two names are the same up to their last character, which is the
\* digit of a version suffix " vN".
DifferOnlyInVersion(a, b) ==
    /\ Len(a) = Len(b) /\ Len(a) >= 3
    /\ a # b
    /\ SubSeq(a, 1, Len(a) - 1) = SubSeq(b, 1, Len(b) - 1)
    /\ a[Len(a) - 2] = " " /\ a[Len(a) - 1] = "v"
    /\ a[Len(a)] \in DigitChars /\ b[Len(b)] \in DigitChars

\* C28: the score is 1.0 for the same string and for identical model
\* numbers, below 0.5 for two names that differ only in their version
\* suffix, and 0.0 for an empty query against a non-empty candidate.
C28_MatchScoreContract ==
    score_call # NoScoreCall =>
       LET s == score_call.search
           c == score_call.candidate
       IN  /\ s = c => score_call.score = 1000
           /\ (/\ extract_model_number(s) # <<>>
               /\ extract_model_number(s) = extract_model_number(c)
               /\ ~DifferOnlyInVersion(s, c))
                 => score_call.score = 1000
           /\ DifferOnlyInVersion(s, c) => score_call.score < 500
           /\ (s = <<>> /\ c # <<>>) => score_call.score = 0

\* The third part of C28 alone: names that differ only in their version
\* suffix score below 0.5.
C28_VersionSuffix ==
    (score_call # NoScoreCall
       /\ DifferOnlyInVersion(score_call.search, score_call.candidate))
      => score_call.score < 500

(***************************************************************************)
(* The claim about a start after a stop whose join timed out (SpecWorker). *)
(***************************************************************************)

\* C31: once start_collector has returned, and until the next
\* stop_collector, a collector worker is alive: collection has resumed, also
\* when the stop before it returned with the worker still inside a pass.
C31_StartResumesCollection ==
    (ctl.pc = "idle" /\ ctl.last \in {"start_noop", "start_spawned"})
       => \E t \in ThreadIds : IsAlive(t)

(***************************************************************************)
(* The claim about the end of a fetch job (SpecFetchFair).                 *)
(***************************************************************************)

\* C32: every name in the pending set is removed from it later, whatever the
\* outcome of its fetch job.
C32_PendingEventuallyRemoved ==
    \A n \in CPUNames : (n \in pending) ~> (n \notin pending)

\* A name was queued, its job is over and the name is pending no more while
\* another call has queued again.
C32_Witness ==
    /\ calls >= 2
    /\ tasks = {}
    /\ pending = {}
    /\ \E c \in Callers : caller[c].pc = "done" /\ caller[c].ret = "true"
                            /\ caller[c].call = 1

\* C33: at most one DB-state watcher of start_cache_worker is alive at a
\* time: a start_cache_worker called while the cache worker runs starts no
\* second watcher.
C33_AtMostOneWatcher ==
    Cardinality(watchers) <= 1

\* The other half of C33: a step of stop_cache_worker leaves no watcher of an
\* earlier start running.
C33_NoWatcherLeftAfterStop ==
    [][(cache_thread'.should_stop /\ ~cache_thread.should_stop) => watchers' = {}]_vars

\* C34: a call get_benchmarks_batch([q]) that reads the rows of the table
\* answers for q the record get_benchmark(q) answers on that table, or None
\* as it does.
C34_BatchEqualsSingle ==
    (batch.name # <<>> /\ batch.fresh) => batch.result = batch.single

\* C35: the variables recorded for a device come only from VAR lines sent in
\* reply to LIST VAR of that device.
C35_VariablesOfOwnDevice ==
    \A d \in Range(UpsList) : ups.variables[d] \subseteq {d}

\* The general half of C35: the response _send_command returns for a command
\* holds only bytes sent in reply to that command.
C35_ResponseOfOwnCommand ==
    ups.pc = "returned" =>
        \A i \in 1..Len(ups.response) : ups.response[i].cmd = ups.k

\* C36: when _send_command returns on the terminator or the error prefix with
\* a response that is the start of the reply to its command, the response is
\* the whole reply and none of the reply's bytes wait on the socket.
C36_ReplyReadWhole ==
    ( /\ ups.pc = "returned"
      /\ ups.outcome = "terminated"
      /\ \A i \in 1..Len(ups.response) : ups.response[i].cmd = ups.k )
    => /\ ups.response \in {ReplyPieces(ups.k, "list"), ReplyPieces(ups.k, "error")}
       /\ \A i \in 1..Len(wire) : wire[i].cmd # ups.k

====
